---- MODULE Spec2Model ----
(***************************************************************************)
(* One CarbonCoin node (blockchain/blockchain.py, node/node.py,            *)
(* network/app.py) as a state machine.  The node's Ledger (chain, mempool, *)
(* balance / mined-id cache) is shared by request handlers and by the      *)
(* background threads; the peers of the node are the environment and       *)
(* answer with chains, blocks and transactions drawn from bounded sets.    *)
(*                                                                         *)
(* Hashes.  SHA-256 over the key-sorted JSON of a block or transaction is  *)
(* modelled as the tuple of the hashed fields (injective: no collisions).  *)
(* The hexadecimal text of a block hash is abstracted to its number of     *)
(* leading '0' characters, a deterministic function of the hashed fields.  *)
(* Amounts and timestamps are integers; time.time() reads the clock `now`, *)
(* which advances on every read.                                           *)
(***************************************************************************)
EXTENDS Integers, Sequences, FiniteSets, TLC

\* ---------------------------------------------------------------- bounds
MaxTime == 2            \* reads of time.time() (blocks and transactions created)
MaxApiTime == 3         \* the same, where the calls are taken one at a time
MaxVersion == 2         \* version of a persisted file
MaxPending == 2         \* mempool entries
MaxChain == 3           \* blocks in a chain
HashZerosRange == 4     \* a hash starts with 0 .. HashZerosRange-1 zero characters

\* ------------------------------------------------------ program constants
MINING_REWARD == 10
MAX_TRANSACTIONS_PER_BLOCK == 1
difficulty == 3
COINBASE_ADDRESS == "COINBASE_SYSTEM"
TT_COINBASE == "coinbase"
TT_TRANSFER == "transfer"
TT_AUTO_TRANSFER == "auto_transfer"

\* The node's wallet, another wallet, and their public keys.
MyAddress == "A"
OtherAddress == "B"
PublicKeyOf(address) == IF address = "A" THEN "pkA" ELSE IF address = "B" THEN "pkB" ELSE ""

\* Python's "" for a signature, and the string "0" of the genesis previous_hash.
NoSignature == <<>>
NoTxId == <<>>
GenesisPreviousHash == <<>>

\* ------------------------------------------------------------ sequences
RECURSIVE SeqFilter(_, _)
\* [x for x in s if x.tx_id not in ids]
SeqFilter(s, ids) ==
    IF s = <<>> THEN <<>>
    ELSE IF Head(s).tx_id \in ids THEN SeqFilter(Tail(s), ids)
         ELSE <<Head(s)>> \o SeqFilter(Tail(s), ids)

Prefix(s, n) == IF n >= Len(s) THEN s ELSE SubSeq(s, 1, n)

TxIdsOf(s) == {s[i].tx_id : i \in 1..Len(s)}

\* ----------------------------------------------------------------- dicts
EmptyDict == [k \in {} |-> 0]
DictGet(d, k, default) == IF k \in DOMAIN d THEN d[k] ELSE default
DictSet(d, k, v) == [x \in (DOMAIN d) \cup {k} |-> IF x = k THEN v ELSE d[x]]

\* ---------------------------------------------------------- transactions
\* Transaction._python_hash / hash_hex: SHA-256 over sender, receiver, amount, timestamp.
TxHash(sender, receiver, amount, timestamp) == <<sender, receiver, amount, timestamp>>

\* Wallet.sign: the signature of `msg` by the key whose public key is `public_key`.
WalletSign(public_key, msg) == <<public_key, msg>>

\* Wallet.verify_signature
verify_signature(public_key, msg, signature) ==
    signature = WalletSign(public_key, msg)

\* Transaction.to_dict of Transaction(sender, receiver, amount, signature, tx_type, public_key, timestamp)
TxDict(sender, receiver, amount, signature, tx_type, public_key, timestamp) ==
    [sender |-> sender, receiver |-> receiver, amount |-> amount,
     signature |-> signature, tx_type |-> tx_type, public_key |-> public_key,
     timestamp |-> timestamp, tx_id |-> TxHash(sender, receiver, amount, timestamp)]

\* Transaction.create_coinbase(receiver, amount).to_dict(), created at `timestamp`
create_coinbase(receiver, amount, timestamp) ==
    TxDict(COINBASE_ADDRESS, receiver, amount, NoSignature, TT_COINBASE, "", timestamp)

\* Transaction(sender, ...).sign(wallet).to_dict() by the wallet of `sender`
SignedTx(sender, receiver, amount, tx_type, timestamp) ==
    TxDict(sender, receiver, amount,
           WalletSign(PublicKeyOf(sender), TxHash(sender, receiver, amount, timestamp)),
           tx_type, PublicKeyOf(sender), timestamp)

\* Transaction.is_coinbase
is_coinbase(tx) == tx.tx_type = TT_COINBASE \/ tx.sender = COINBASE_ADDRESS

\* Transaction.is_valid, on Transaction.from_dict(tx): the hash is recomputed from the fields
is_valid(tx) ==
    IF is_coinbase(tx) THEN tx.amount > 0 /\ tx.receiver /= ""
    ELSE /\ tx.signature /= NoSignature
         /\ tx.public_key /= ""
         /\ tx.amount > 0
         /\ tx.sender /= tx.receiver
         /\ verify_signature(tx.public_key,
                             TxHash(tx.sender, tx.receiver, tx.amount, tx.timestamp),
                             tx.signature)

\* ---------------------------------------------------------------- blocks
\* Block._python_calculate_hash
calculate_hash(block) ==
    <<block.index, block.timestamp, block.data, block.previous_hash, block.nonce>>

\* The number of leading '0' characters of a hash's hexadecimal text.
LeadingZeros(h) ==
    IF h = <<>> THEN 0 ELSE (h[1] + h[2] + Len(h[3]) + h[5]) % HashZerosRange

\* block.hash[:difficulty] == "0" * difficulty
MeetsDifficulty(h) == LeadingZeros(h) >= difficulty

\* Block(index, timestamp, data, previous_hash, nonce): the constructor computes the hash
Block(index, timestamp, data, previous_hash, nonce) ==
    LET b == [index |-> index, timestamp |-> timestamp, data |-> data,
              previous_hash |-> previous_hash, nonce |-> nonce, hash |-> <<>>]
    IN  [b EXCEPT !.hash = calculate_hash(b)]

GENESIS_BLOCK == Block(0, 0, <<>>, GenesisPreviousHash, 0)

RECURSIVE _python_proof_of_work(_)
\* Blockchain._python_proof_of_work: raise the nonce until the hash meets the difficulty
_python_proof_of_work(block) ==
    IF MeetsDifficulty(block.hash) THEN block
    ELSE LET b == [block EXCEPT !.nonce = block.nonce + 1]
         IN  _python_proof_of_work([b EXCEPT !.hash = calculate_hash(b)])

\* ---------------------------------------------------------------- ledger
\* The Blockchain object's fields as one record, so that its methods are operators.
LedgerOf(c, p, bal, mined, clen) ==
    [chain |-> c, pending |-> p, bal |-> bal, mined |-> mined, clen |-> clen]

RECURSIVE ChainTxs(_)
\* the transactions of the chain's blocks, in chain order
ChainTxs(c) == IF c = <<>> THEN <<>> ELSE Head(c).data \o ChainTxs(Tail(c))

\* Blockchain._rebuild_caches lines 80-81: balances[receiver] += amount
Credit(balances, tx) ==
    IF tx.receiver /= ""
    THEN DictSet(balances, tx.receiver, DictGet(balances, tx.receiver, 0) + tx.amount)
    ELSE balances

\* a debit that does not spare the coinbase address
Debit_coinbase_too(balances, tx) ==
    IF tx.sender /= ""
    THEN DictSet(balances, tx.sender, DictGet(balances, tx.sender, 0) - tx.amount)
    ELSE balances

\* Blockchain._rebuild_caches lines 82-83: balances[sender] -= amount
Debit(balances, tx) ==
    IF tx.sender /= "" /\ tx.sender /= COINBASE_ADDRESS
    THEN DictSet(balances, tx.sender, DictGet(balances, tx.sender, 0) - tx.amount)
    ELSE balances

RECURSIVE ScanTxs(_, _, _)
\* The loop of Blockchain._rebuild_caches over the chain's transactions: a tx_id seen
\* before is skipped, any other transaction is recorded, credited and debited.
ScanTxs(txs, balances, mined_tx_ids) ==
    IF txs = <<>> THEN [balances |-> balances, mined_tx_ids |-> mined_tx_ids]
    ELSE IF Head(txs).tx_id /= NoTxId /\ Head(txs).tx_id \in mined_tx_ids
         THEN ScanTxs(Tail(txs), balances, mined_tx_ids)
         ELSE ScanTxs(Tail(txs),
                      Debit(Credit(balances, Head(txs)), Head(txs)),
                      IF Head(txs).tx_id /= NoTxId
                      THEN mined_tx_ids \cup {Head(txs).tx_id} ELSE mined_tx_ids)

\* The scan of Blockchain._rebuild_caches (lines 58-83): the two local results.
ScanChain(c) == ScanTxs(ChainTxs(c), EmptyDict, {})

\* Blockchain._rebuild_caches lines 85-87: the results of a scan are stored
StoreCaches(L, scan) ==
    [L EXCEPT !.bal = scan.balances, !.mined = scan.mined_tx_ids, !.clen = Len(L.chain)]

\* Blockchain._rebuild_caches
_rebuild_caches(L) == StoreCaches(L, ScanChain(L.chain))

\* Blockchain._invalidate_cache
_invalidate_cache(L) == [L EXCEPT !.bal = EmptyDict, !.mined = {}, !.clen = Len(L.chain)]

\* Blockchain.get_mined_transaction_ids: the ledger after the call (the cache may be rebuilt)
get_mined_transaction_ids(L) ==
    IF L.mined = {} \/ L.clen /= Len(L.chain) THEN _rebuild_caches(L) ELSE L

\* Blockchain.get_balance / get_all_balances: the ledger after the call
EnsureBalances(L) ==
    IF DOMAIN L.bal = {} \/ L.clen /= Len(L.chain) THEN _rebuild_caches(L) ELSE L

\* Blockchain.get_balance: the value returned
get_balance(L, address) == DictGet(EnsureBalances(L).bal, address, 0)

\* Blockchain.get_all_balances: a copy of the cache, rebuilt first under the same test
get_all_balances(L) == EnsureBalances(L).bal

\* Blockchain.is_transaction_mined: the value returned
is_transaction_mined(L, tx_id) == tx_id \in get_mined_transaction_ids(L).mined

\* Blockchain.has_sufficient_balance
has_sufficient_balance(L, address, amount) == get_balance(L, address) >= amount

\* Blockchain.get_latest_block
get_latest_block(c) == c[Len(c)]

\* The reasons validate_transaction gives.
ERR_MINED == "Transaction already mined in blockchain"
ERR_PENDING == "Transaction already in pending pool"
ERR_COINBASE == "Cannot submit coinbase transactions"
ERR_AMOUNT == "Amount must be positive"
ERR_SELF == "Cannot send to yourself"
ERR_BALANCE == "Insufficient balance"
ERR_SIGNATURE == "Invalid transaction signature"

\* (is_valid, error_message), and the ledger after the call
Verdict(ok, err, led) == [ok |-> ok, error |-> err, ledger |-> led]

\* Blockchain.validate_transaction lines 160-169, on the ledger L2 after get_balance
ValidateFunds(L2, tx) ==
    IF ~(DictGet(L2.bal, tx.sender, 0) >= tx.amount) THEN Verdict(FALSE, ERR_BALANCE, L2)
    ELSE IF ~is_valid(tx) THEN Verdict(FALSE, ERR_SIGNATURE, L2)
    ELSE Verdict(TRUE, "", L2)

\* validate_transaction as it would be with the amount check of lines 153-154 moved
\* before the coinbase check of lines 149-150
ValidateForm_amount_first(L1, tx, check_chain) ==
    IF check_chain /\ tx.tx_id /= NoTxId /\ tx.tx_id \in L1.mined
    THEN Verdict(FALSE, ERR_MINED, L1)
    ELSE IF tx.tx_id /= NoTxId /\ tx.tx_id \in TxIdsOf(L1.pending)
    THEN Verdict(FALSE, ERR_PENDING, L1)
    ELSE IF tx.amount <= 0 THEN Verdict(FALSE, ERR_AMOUNT, L1)
    ELSE IF is_coinbase(tx) THEN Verdict(FALSE, ERR_COINBASE, L1)
    ELSE IF tx.sender = tx.receiver THEN Verdict(FALSE, ERR_SELF, L1)
    ELSE ValidateFunds(EnsureBalances(L1), tx)

\* Blockchain.validate_transaction lines 140-158, on the ledger L1 after the
\* is_transaction_mined call (if it is made)
ValidateForm(L1, tx, check_chain) ==
    IF check_chain /\ tx.tx_id /= NoTxId /\ tx.tx_id \in L1.mined
    THEN Verdict(FALSE, ERR_MINED, L1)
    ELSE IF tx.tx_id /= NoTxId /\ tx.tx_id \in TxIdsOf(L1.pending)
    THEN Verdict(FALSE, ERR_PENDING, L1)
    ELSE IF is_coinbase(tx) THEN Verdict(FALSE, ERR_COINBASE, L1)
    ELSE IF tx.amount <= 0 THEN Verdict(FALSE, ERR_AMOUNT, L1)
    ELSE IF tx.sender = tx.receiver THEN Verdict(FALSE, ERR_SELF, L1)
    ELSE ValidateFunds(EnsureBalances(L1), tx)

\* Blockchain.validate_transaction: (is_valid, error_message) and the ledger after the call
validate_transaction(L, tx, check_chain) ==
    ValidateForm(IF check_chain /\ tx.tx_id /= NoTxId THEN get_mined_transaction_ids(L) ELSE L,
                 tx, check_chain)

\* Blockchain.cleanup_pending_transactions lines 207-216, with the mined ids at hand
DropMined(L1, kept) ==
    [removed |-> Len(L1.pending) - Len(kept), ledger |-> [L1 EXCEPT !.pending = kept]]

\* a cleanup that empties the mempool
FilterPending_everything(L1) == DropMined(L1, <<>>)

FilterPending(L1) == DropMined(L1, SeqFilter(L1.pending, L1.mined))

\* Blockchain.cleanup_pending_transactions: the count removed and the ledger after the call
cleanup_pending_transactions(L) == FilterPending(get_mined_transaction_ids(L))

\* Blockchain.is_valid_chain
is_valid_chain(c) ==
    /\ c /= <<>>
    /\ c[1].hash = GENESIS_BLOCK.hash
    /\ \A i \in 2..Len(c) :
          /\ c[i].hash = calculate_hash(c[i])
          /\ c[i].previous_hash = c[i-1].hash

\* add_block as it would be without the proof-of-work check of lines 282-283
add_block_without_pow(L, block) ==
    IF block.previous_hash /= get_latest_block(L.chain).hash THEN [ret |-> FALSE, ledger |-> L]
    ELSE IF block.hash /= calculate_hash(block) THEN [ret |-> FALSE, ledger |-> L]
    ELSE [ret |-> TRUE,
          ledger |-> _invalidate_cache([L EXCEPT !.chain = Append(L.chain, block)])]

\* Blockchain.add_block: the value returned and the ledger after the call
add_block(L, block) ==
    IF block.previous_hash /= get_latest_block(L.chain).hash THEN [ret |-> FALSE, ledger |-> L]
    ELSE IF block.hash /= calculate_hash(block) THEN [ret |-> FALSE, ledger |-> L]
    ELSE IF ~MeetsDifficulty(block.hash) THEN [ret |-> FALSE, ledger |-> L]
    ELSE [ret |-> TRUE,
          ledger |-> _invalidate_cache([L EXCEPT !.chain = Append(L.chain, block)])]

\* Blockchain.replace_chain: the value returned and the ledger after the call
replace_chain(L, new_chain) ==
    IF Len(new_chain) <= Len(L.chain) THEN [ret |-> FALSE, ledger |-> L]
    ELSE IF ~is_valid_chain(new_chain) THEN [ret |-> FALSE, ledger |-> L]
    ELSE IF \E i \in 2..Len(new_chain) : ~MeetsDifficulty(new_chain[i].hash)
         THEN [ret |-> FALSE, ledger |-> L]
    ELSE [ret |-> TRUE, ledger |-> _invalidate_cache([L EXCEPT !.chain = new_chain])]

\* Blockchain.mine_block lines 243-256: coinbase, Block(...), proof_of_work.  The
\* coinbase transaction and the block read time.time() in turn: one reading `t`.
BuildBlock(L2, transactions_for_block, miner_address, t) ==
    [block |-> _python_proof_of_work(
                   Block(Len(L2.chain), t,
                         <<create_coinbase(miner_address, MINING_REWARD, t)>>
                             \o transactions_for_block,
                         get_latest_block(L2.chain).hash, 0)),
     txs |-> transactions_for_block,
     ledger |-> L2]

\* Blockchain.mine_block lines 236-241: the pending transactions not mined, cut to
\* MAX_TRANSACTIONS_PER_BLOCK
SelectTransactions(L2) ==
    Prefix(SeqFilter(L2.pending, L2.mined), MAX_TRANSACTIONS_PER_BLOCK)

\* Blockchain.mine_block lines 236-256, on the ledger L2 after the mined-id lookup
MineOn(L2, miner_address, t) ==
    BuildBlock(L2, SelectTransactions(L2), miner_address, t)

\* Blockchain.mine_block, lines 232-256: the block built and mined on the ledger as read
\* (cleanup, selection, coinbase, Block(...), proof_of_work), before it is appended.
MineCandidate(L, miner_address, t) ==
    MineOn(get_mined_transaction_ids(cleanup_pending_transactions(L).ledger),
           miner_address, t)

\* a mine_block that leaves the mempool as the cleanup left it
FinishMine_without_removal(r) ==
    [block |-> r.block,
     ledger |-> _invalidate_cache([r.ledger EXCEPT !.chain = Append(@, r.block)])]

\* Blockchain.mine_block lines 257-270: append, drop the included transactions from
\* the mempool, invalidate the caches
FinishMine(r) ==
    [block |-> r.block,
     ledger |-> _invalidate_cache([r.ledger EXCEPT !.chain = Append(@, r.block),
                                                   !.pending = SeqFilter(@, TxIdsOf(r.txs))])]

\* Blockchain.mine_block run by one thread with no other thread in between: the
\* block returned and the ledger after the call
mine_block(L, miner_address, t) == FinishMine(MineCandidate(L, miner_address, t))

\* ------------------------------------------------------------------ state
VARIABLES
    chain,                  \* Blockchain.chain
    pending_transactions,   \* Blockchain.pending_transactions (the mempool)
    _balance_cache,         \* Blockchain._balance_cache
    _mined_tx_cache,        \* Blockchain._mined_tx_cache
    _cache_chain_length,    \* Blockchain._cache_chain_length
    lock,                   \* the holder of Blockchain._lock, or "free"
    peers,                  \* Node.peers
    now,                    \* the next reading of time.time()
    miner,                  \* per mining thread: where it is in mine_block, and its locals
    resolver,               \* the thread inside resolve_conflicts (Node._sync_lock admits one)
    reader,                 \* a thread inside get_balance / get_mined_transaction_ids
    sent,                   \* tx_ids handed to _broadcast_transaction
    last,                   \* the last completed call and what it returned
    handler,                \* per request thread inside receive_transaction: its position and locals
    puller,                 \* the thread inside _sync_pending_transactions
    disk,                   \* the data files of Storage: blockchain.json, pending_tx.json
    versions,               \* the version record of Storage: .versions.json
    lockfile,               \* the lock marker file of Storage._file_lock
    procs,                  \* per node process of the data directory: where it is in a save
    sessions,               \* the session table of Storage: sessions.json (port -> address)
    cleaner,                \* the thread inside cleanup_pending_transactions: its position and locals
    callers,                \* per thread inside a function that sends requests to the peers: its position and locals
    _peers_lock,            \* the holder of Node._peers_lock, or "free"
    _sync_lock,             \* the holder of Node._sync_lock, or "free"
    services,               \* per background service: its active flag and its loop threads
    nodes                   \* per port: the node process started on it, its position and wallet

ledger_vars == <<chain, pending_transactions, _balance_cache, _mined_tx_cache, _cache_chain_length>>
thread_vars == <<lock, miner, resolver, reader>>
vars == <<chain, pending_transactions, _balance_cache, _mined_tx_cache, _cache_chain_length,
          lock, peers, now, miner, resolver, reader, sent, last,
          handler, puller, disk, versions, lockfile, procs, sessions, cleaner,
          callers, _peers_lock, _sync_lock, services, nodes>>
pool_vars == <<handler, puller, cleaner>>
storage_vars == <<disk, versions>>
shared_vars == <<lockfile, procs, sessions>>
net_vars == <<callers, _peers_lock, _sync_lock, services, nodes>>

Ledger == LedgerOf(chain, pending_transactions, _balance_cache, _mined_tx_cache, _cache_chain_length)

SetLedger(L) ==
    /\ chain' = L.chain
    /\ pending_transactions' = L.pending
    /\ _balance_cache' = L.bal
    /\ _mined_tx_cache' = L.mined
    /\ _cache_chain_length' = L.clen

\* The mining loop thread and a GET /mine request thread.
Miners == {"mining_loop", "mine_once"}

NoBlock == <<>>
IdleMiner == [pc |-> "idle", block |-> NoBlock, txs |-> <<>>]
\* own_len, best_len and all_valid are history: the chain's length when the run began,
\* the longest fully valid chain a peer offered in this run, and whether every chain
\* offered was fully valid.
IdleResolver == [pc |-> "idle", caller |-> "", max_length |-> 0, longest_chain |-> <<>>,
                 todo |-> {}, own_len |-> 0, best_len |-> 0, all_valid |-> TRUE]
IdleReader == [pc |-> "idle", balances |-> EmptyDict, mined_tx_ids |-> {}]
NoCall == [op |-> "", ret |-> FALSE]
NoTx == <<>>
IdleHandler == [pc |-> "idle", tx |-> NoTx]
IdleCleaner == [pc |-> "idle", kept |-> <<>>]
IdlePuller == [pc |-> "idle", todo |-> {}, existing_tx_ids |-> {}, mined_tx_ids |-> {},
               tx |-> NoTx]
\* the node processes that share the data directory
Procs == {"p1", "p2"}
\* no lock marker file; a process outside Storage
NoLock == [exists |-> FALSE, pid |-> "", age |-> 0]
IdleProc == [pc |-> "idle", attempt |-> 0, lock_acquired |-> FALSE, new_chain |-> <<>>]
\* The functions of Node that send requests to the peers, each run by a thread.
Operations == {"resolve_conflicts", "_broadcast_block", "_broadcast_transaction",
               "_propagate_peer", "discover_peers_from_network",
               "_sync_pending_transactions"}
\* no peer: no request is awaited
NoPeer == <<>>
\* a thread outside its function.  todo is what is left of peers_copy, awaiting the
\* peer whose answer the thread waits for, r the locals of resolve_conflicts,
\* seen the ids of existing_tx_ids and mined_tx_ids, left the requests
\* _propagate_peer has yet to send to the new peer.
IdleCaller == [pc |-> "idle", peers_copy |-> {}, todo |-> {}, awaiting |-> NoPeer,
               r |-> [max_length |-> 0, longest_chain |-> <<>>],
               new_peers |-> {}, seen |-> {}, count |-> 0, new_peer_url |-> NoPeer,
               left |-> 0]
\* The background services of Node (node.py lines 79-90): mining_active and
\* _mining_loop, sync_active and _sync_loop, auto_transfer_active and
\* _auto_transfer_loop.
Services == {"mining", "sync", "auto_transfer"}
\* Node.__init__ lines 81-90: the flag is False and no thread has been started.
\* starting counts the calls of start_..._service that have passed the test of the
\* flag and not yet set it; threads lists the loop threads started so far.
IdleService == [active |-> FALSE, starting |-> 0, threads |-> <<>>]
\* The node processes of one machine, by port: off, storage (Storage constructed),
\* booting (session started), listening (app.run), ended (session ended, still
\* listening); and the wallets they run with
Ports == {5000, 5001, 5002}
WalletAddresses == {"A", "B", "C"}
NodeOff == [pc |-> "off", address |-> ""]
\* Storage: a data file that does not exist, one that holds data, and one whose
\* content is not JSON
NoFile == [exists |-> FALSE, readable |-> TRUE, data |-> <<>>]
FileOf(data) == [exists |-> TRUE, readable |-> TRUE, data |-> data]
CorruptFile == [exists |-> TRUE, readable |-> FALSE, data |-> <<>>]

\* Blockchain.__init__ and Node.__init__ (a fresh node: no persisted chain)
Init ==
    /\ chain = <<GENESIS_BLOCK>>
    /\ pending_transactions = <<>>
    /\ _balance_cache = EmptyDict
    /\ _mined_tx_cache = {}
    /\ _cache_chain_length = 1
    /\ lock = "free"
    /\ peers = {}
    /\ now = 1
    /\ miner = [m \in Miners |-> IdleMiner]
    /\ resolver = IdleResolver
    /\ reader = IdleReader
    /\ sent = {}
    /\ last = NoCall
    /\ handler = IdleHandler
    /\ puller = IdlePuller
    /\ disk = [blockchain |-> NoFile, pending_tx |-> NoFile]
    /\ versions = EmptyDict
    /\ lockfile = NoLock
    /\ procs = [p \in Procs |-> IdleProc]
    /\ sessions = EmptyDict
    /\ cleaner = IdleCleaner
    /\ callers = [c \in Operations |-> IdleCaller]
    /\ _peers_lock = "free"
    /\ _sync_lock = "free"
    /\ services = [s \in Services |-> IdleService]
    /\ nodes = [port \in Ports |-> NodeOff]

\* ------------------------------------------------------------ environment
\* What a peer can send.  A block a peer builds on `prev` at time t:
\*   honest   mined as mine_block does (coinbase for the peer's wallet, proof of work),
\*            as are the carrier and replay blocks
\*   nopow    its hash is its recomputation but does not meet the difficulty
\*   badhash  its hash field meets the difficulty but is not its recomputation
BlockKinds == {"honest", "nopow", "badhash", "carrier", "replay"}

PeerData(t) == <<create_coinbase(OtherAddress, MINING_REWARD, t)>>

RECURSIVE Transfers(_)
\* the transactions of a list that are not coinbase transactions
Transfers(txs) ==
    IF txs = <<>> THEN <<>>
    ELSE IF is_coinbase(Head(txs)) THEN Transfers(Tail(txs))
         ELSE <<Head(txs)>> \o Transfers(Tail(txs))

\* What a peer puts into a block after its coinbase transaction:
\*   carrier  the first transaction of this node's mempool (the peer has it by gossip)
\*   replay   the first transfer of this node's chain, once more
CarriedData(kind) ==
    CASE kind = "carrier" -> Prefix(pending_transactions, 1)
      [] kind = "replay" -> Prefix(Transfers(ChainTxs(chain)), 1)
      [] OTHER -> <<>>

\* a nonce with which the peer's block does not meet the difficulty
LazyNonce(prev, t) ==
    CHOOSE n \in 0..HashZerosRange :
        ~MeetsDifficulty(Block(prev.index + 1, t, PeerData(t), prev.hash, n).hash)

\* the hash field kept, the nonce not
Tamper(block) == [block EXCEPT !.nonce = block.nonce + 1]

PeerBlock(prev, kind, t) ==
    CASE kind = "nopow" ->
             Block(prev.index + 1, t, PeerData(t), prev.hash, LazyNonce(prev, t))
      [] kind = "badhash" ->
             Tamper(_python_proof_of_work(Block(prev.index + 1, t, PeerData(t), prev.hash, 0)))
      [] OTHER ->
             _python_proof_of_work(Block(prev.index + 1, t, PeerData(t) \o CarriedData(kind),
                                         prev.hash, 0))

RECURSIVE Extend(_, _, _)
\* the chain `base` extended by one peer block per kind, created at t, t+1, ...
Extend(base, kinds, t) ==
    IF kinds = <<>> THEN base
    ELSE Extend(Append(base, PeerBlock(base[Len(base)], Head(kinds), t)), Tail(kinds), t + 1)

KindSeqs == {<<>>, <<"honest">>, <<"nopow">>, <<"badhash">>, <<"honest", "honest">>,
             <<"carrier">>, <<"replay">>}

\* A first block that carries the genesis block's hash over other content: a
\* coinbase transaction for the peer's wallet.  (resolve_conflicts line 530 takes
\* the hash field from the peer's JSON.)
ForgedGenesis ==
    [GENESIS_BLOCK EXCEPT !.data = <<create_coinbase(OtherAddress, MINING_REWARD, 0)>>]

\* An answer of a peer to GET /chain: {length, chain}, where the chain is `base`
\* extended by the peer.
ChainResponse(base, ks, n) ==
    [status |-> 200, length |-> n, chain |-> Extend(base, ks, now), ticks |-> Len(ks)]

\* The answers of a peer to GET /chain: an error; a chain sharing a prefix with this
\* node's, with its length; such a chain with a length larger or smaller than it
\* has; a chain on a forged first block.
PeerResponses ==
    {[status |-> 500, length |-> 0, chain |-> <<>>, ticks |-> 0]} \cup
    {ChainResponse(Prefix(chain, jk[1]), jk[2], jk[1] + Len(jk[2])) :
        jk \in {x \in (1..Len(chain)) \X KindSeqs :
                   x[1] + Len(x[2]) <= MaxChain /\ now + Len(x[2]) - 1 <= MaxTime}} \cup
    {ChainResponse(Prefix(chain, j), <<>>, MaxChain + 1) : j \in 1..Len(chain)} \cup
    (IF Len(chain) < MaxChain /\ now <= MaxTime
     THEN {ChainResponse(chain, <<"honest">>, 0),
           ChainResponse(<<ForgedGenesis>>, <<"honest">>, 2)}
     ELSE {})

\* Blocks a peer posts to /receive_block: built on any block of this node's chain, or
\* claiming an index further ahead.
IncomingBlocks ==
    {PeerBlock(chain[j], k, now) : j \in 1..Len(chain), k \in BlockKinds} \cup
    {[PeerBlock(get_latest_block(chain), "honest", now) EXCEPT !.index = @ + 1]}

Amounts == {0, 5, 15}

\* Transaction dicts a peer posts to /receive_transaction: signed transfers and
\* auto-transfers between the wallets, ill-formed ones, and replays of known ones.
TxInputs ==
    {SignedTx(MyAddress, OtherAddress, a, TT_TRANSFER, now) : a \in Amounts} \cup
    {SignedTx(OtherAddress, MyAddress, 5, ty, now) : ty \in {TT_TRANSFER, TT_AUTO_TRANSFER}} \cup
    {SignedTx(MyAddress, MyAddress, a, TT_TRANSFER, now) : a \in Amounts} \cup
    {TxDict(MyAddress, OtherAddress, a, WalletSign("pkB", <<>>), TT_TRANSFER, "pkA", now) :
        a \in {5, 15}} \cup
    {TxDict(OtherAddress, MyAddress, 15, NoSignature, TT_AUTO_TRANSFER, "", now),
     TxDict(COINBASE_ADDRESS, OtherAddress, 5, NoSignature, TT_COINBASE, "", now),
     TxDict(COINBASE_ADDRESS, OtherAddress, 0, NoSignature, TT_TRANSFER, "", now),
     [SignedTx(MyAddress, OtherAddress, 5, TT_TRANSFER, now) EXCEPT !.tx_id = NoTxId]} \cup
    {pending_transactions[i] : i \in 1..Len(pending_transactions)} \cup
    {ChainTxs(chain)[i] : i \in 1..Len(ChainTxs(chain))}

Max(a, b) == IF a >= b THEN a ELSE b

\* The yardstick of the properties below, not a step of the program: a chain that
\* starts with the genesis block and whose later blocks are linked, carry the hash of
\* their fields and meet the difficulty.  It feeds only the resolver's history fields
\* best_len and all_valid, which no action reads.
FullyValid(c) ==
    /\ c /= <<>>
    /\ c[1] = GENESIS_BLOCK
    /\ \A i \in 2..Len(c) :
          /\ c[i].previous_hash = c[i-1].hash
          /\ c[i].hash = calculate_hash(c[i])
          /\ MeetsDifficulty(c[i].hash)

\* ------------------------------------------------------------ mine_block
\* the candidate is kept in the thread's locals; the ledger is as the lookups left it
KeepCandidate(m, r) ==
    /\ SetLedger(r.ledger)
    /\ miner' = [miner EXCEPT ![m] = [pc |-> "mined", block |-> r.block, txs |-> r.txs]]

\* Blockchain.mine_block lines 232-256, by the mining loop or by GET /mine: the
\* candidate is built and mined on the chain as read.  Only the cleanup and the
\* mined-id lookup take Blockchain._lock.
MineStart(m) ==
    /\ miner[m].pc = "idle"
    /\ lock = "free"
    /\ now <= MaxTime
    /\ Len(chain) < MaxChain
    /\ KeepCandidate(m, MineCandidate(Ledger, MyAddress, now))
    /\ now' = now + 1
    /\ UNCHANGED <<lock, peers, resolver, reader, sent, last>>
    /\ UNCHANGED <<pool_vars, storage_vars, shared_vars, net_vars>>

\* Blockchain.mine_block lines 257-264: append, and drop the included transactions
\* from the mempool.  Blockchain._lock is not held.
MineAppend(m) ==
    /\ miner[m].pc = "mined"
    /\ chain' = Append(chain, miner[m].block)
    /\ pending_transactions' = SeqFilter(pending_transactions, TxIdsOf(miner[m].txs))
    /\ miner' = [miner EXCEPT ![m].pc = "appended"]
    /\ UNCHANGED <<_balance_cache, _mined_tx_cache, _cache_chain_length,
                   lock, peers, now, resolver, reader, sent, last>>
    /\ UNCHANGED <<pool_vars, storage_vars, shared_vars, net_vars>>

\* Blockchain.mine_block lines 267-270: invalidate the caches under the lock, return.
MineInvalidate(m) ==
    /\ miner[m].pc = "appended"
    /\ lock = "free"
    /\ SetLedger(_invalidate_cache(Ledger))
    /\ miner' = [miner EXCEPT ![m] = IdleMiner]
    /\ UNCHANGED <<lock, peers, now, resolver, reader, sent, last>>
    /\ UNCHANGED <<pool_vars, storage_vars, shared_vars, net_vars>>

\* ----------------------------------------------------------- get_balance
\* the scan's results are the thread's locals
KeepScan(scan) ==
    reader' = [pc |-> "scanned", balances |-> scan.balances,
               mined_tx_ids |-> scan.mined_tx_ids]

\* Blockchain.get_balance / get_mined_transaction_ids on a stale cache: the lock is
\* taken and _rebuild_caches scans the chain (lines 58-83).
ReadStart ==
    /\ reader.pc = "idle"
    /\ lock = "free"
    /\ \/ DOMAIN _balance_cache = {}
       \/ _mined_tx_cache = {}
       \/ _cache_chain_length /= Len(chain)
    /\ KeepScan(ScanChain(chain))
    /\ lock' = "reader"
    /\ UNCHANGED <<ledger_vars, peers, now, miner, resolver, sent, last>>
    /\ UNCHANGED <<pool_vars, storage_vars, shared_vars, net_vars>>

\* Blockchain._rebuild_caches lines 85-87: the scan's results are stored, with the
\* chain's length as it is now; the lock is released.
ReadStore ==
    /\ reader.pc = "scanned"
    /\ _balance_cache' = reader.balances
    /\ _mined_tx_cache' = reader.mined_tx_ids
    /\ _cache_chain_length' = Len(chain)
    /\ reader' = IdleReader
    /\ lock' = "free"
    /\ UNCHANGED <<chain, pending_transactions, peers, now, miner, resolver, sent, last>>
    /\ UNCHANGED <<pool_vars, storage_vars, shared_vars, net_vars>>

\* ------------------------------------------------------ resolve_conflicts
\* Node.resolve_conflicts lines 511-542: one peer's answer to GET /chain
ProcessPeerChain(r, resp) ==
    IF resp.status /= 200 THEN r
    ELSE IF resp.length <= r.max_length THEN r
    ELSE IF is_valid_chain(resp.chain)
         THEN [r EXCEPT !.max_length = Len(resp.chain), !.longest_chain = resp.chain]
         ELSE r

\* history of the run: what the peers offered
Observe(r, resp) ==
    IF resp.status /= 200 THEN r
    ELSE [r EXCEPT !.best_len = IF FullyValid(resp.chain) THEN Max(@, Len(resp.chain)) ELSE @,
                   !.all_valid = @ /\ FullyValid(resp.chain)]

\* Node.resolve_conflicts lines 499-506, called by the sync loop, the mining loop,
\* GET /mine, GET /consensus (caller "sync") or by receive_block.
ResolveBegin(caller) ==
    /\ resolver.pc = "idle"
    /\ resolver' = [IdleResolver EXCEPT !.pc = "fetch", !.caller = caller,
                                        !.max_length = Len(chain), !.todo = peers,
                                        !.own_len = Len(chain)]

ResolveStart ==
    /\ ResolveBegin("sync")
    /\ UNCHANGED <<ledger_vars, lock, peers, now, miner, reader, sent, last>>
    /\ UNCHANGED <<pool_vars, storage_vars, shared_vars, net_vars>>

\* the peer is done; the clock has moved if the peer's new blocks are kept
AfterFetch(p, resp, r1) ==
    /\ resolver' = Observe([r1 EXCEPT !.todo = @ \ {p}], resp)
    /\ now' = IF r1.longest_chain /= resolver.longest_chain THEN now + resp.ticks ELSE now

\* Node.resolve_conflicts lines 508-542: the next peer of peers_copy is asked
ResolveFetch ==
    /\ resolver.pc = "fetch"
    /\ \E p \in resolver.todo, resp \in PeerResponses :
          AfterFetch(p, resp, ProcessPeerChain(resolver, resp))
    /\ UNCHANGED <<ledger_vars, lock, peers, miner, reader, sent, last>>
    /\ UNCHANGED <<pool_vars, storage_vars, shared_vars, net_vars>>

\* Node.resolve_conflicts lines 544-545 and 554: the chain is assigned; Blockchain._lock
\* is not held.  With no candidate the call returns False.
ResolveReplace ==
    /\ resolver.pc = "fetch"
    /\ resolver.todo = {}
    /\ IF resolver.longest_chain /= <<>>
       THEN /\ chain' = resolver.longest_chain
            /\ resolver' = [resolver EXCEPT !.pc = "replaced"]
            /\ UNCHANGED <<pending_transactions, _balance_cache, _mined_tx_cache,
                           _cache_chain_length>>
       ELSE /\ resolver.caller = "receive_block" => lock = "free"
            /\ SetLedger(IF resolver.caller = "receive_block"
                         THEN cleanup_pending_transactions(Ledger).ledger ELSE Ledger)
            /\ resolver' = IdleResolver
    /\ UNCHANGED <<lock, peers, now, miner, reader, sent, last>>
    /\ UNCHANGED <<pool_vars, storage_vars, shared_vars, net_vars>>

\* Node.resolve_conflicts lines 546-554: the caches are invalidated under the lock,
\* the mempool is cleaned, the call returns True.
ResolveInvalidate ==
    /\ resolver.pc = "replaced"
    /\ lock = "free"
    /\ SetLedger(cleanup_pending_transactions(_invalidate_cache(Ledger)).ledger)
    /\ resolver' = IdleResolver
    /\ UNCHANGED <<lock, peers, now, miner, reader, sent, last>>
    /\ UNCHANGED <<pool_vars, storage_vars, shared_vars, net_vars>>

RECURSIVE FetchAll(_, _, _)
\* Node.resolve_conflicts lines 508-542, the whole loop: the peers answer with
\* `responses`, in the order of the loop.  ticks is the time taken by the blocks of
\* the chain kept last.
FetchAll(r, ticks, responses) ==
    IF responses = <<>> THEN [r |-> r, ticks |-> ticks]
    ELSE FetchAll(ProcessPeerChain(r, Head(responses)),
                  IF ProcessPeerChain(r, Head(responses)) /= r
                  THEN Head(responses).ticks ELSE ticks,
                  Tail(responses))

\* a replacement that leaves the mempool alone
AdoptChain_without_cleanup(L, longest_chain) ==
    _invalidate_cache([L EXCEPT !.chain = longest_chain])

\* Node.resolve_conflicts lines 545-550: the chain is assigned, the caches are
\* invalidated, the mempool is cleaned
AdoptChain(L, longest_chain) ==
    cleanup_pending_transactions(_invalidate_cache([L EXCEPT !.chain = longest_chain])).ledger

ResolveOutcome(L, f) ==
    IF f.r.longest_chain /= <<>>
    THEN [ret |-> TRUE, ledger |-> AdoptChain(L, f.r.longest_chain), ticks |-> f.ticks]
    ELSE [ret |-> FALSE, ledger |-> L, ticks |-> 0]

\* Node.resolve_conflicts run with no other thread in between: the value returned and
\* the ledger after the call
resolve_conflicts(L, responses) ==
    ResolveOutcome(L, FetchAll([IdleResolver EXCEPT !.max_length = Len(L.chain)], 0, responses))

\* one answer for each peer of peers_copy
ResponseLists(n) ==
    IF n = 0 THEN {<<>>}
    ELSE IF n = 1 THEN {<<a>> : a \in PeerResponses}
    ELSE {<<a, b>> : a \in PeerResponses, b \in PeerResponses}

ResolveConflictsDone(r) ==
    /\ SetLedger(r.ledger)
    /\ now' = now + r.ticks
    /\ last' = [op |-> "resolve_conflicts", ret |-> r.ret]

\* GET /consensus (network/app.py), and every other caller of resolve_conflicts
ResolveConflicts ==
    /\ lock = "free"
    /\ \E responses \in ResponseLists(Cardinality(peers)) :
          ResolveConflictsDone(resolve_conflicts(Ledger, responses))
    /\ UNCHANGED <<thread_vars, peers, sent>>
    /\ UNCHANGED <<pool_vars, storage_vars, shared_vars, net_vars>>

\* A block a peer numbers as it likes: mined on `prev` as an honest block is, with an
\* index field one more than its place.  The index is one of the hashed fields, and
\* the proof of work is done over it.
Misnumbered(prev, t) ==
    _python_proof_of_work(Block(prev.index + 2, t, PeerData(t), prev.hash, 0))

\* An answer of a peer to GET /chain: this node's chain and one misnumbered block.
MisnumberedResponses ==
    IF Len(chain) < MaxChain /\ now <= MaxTime
    THEN {[status |-> 200, length |-> Len(chain) + 1,
           chain |-> Append(chain, Misnumbered(get_latest_block(chain), now)),
           ticks |-> 1]}
    ELSE {}

\* Node.resolve_conflicts run with no other thread in between, the first peer asked
\* offering a misnumbered block (lines 521-530 take every field from the peer's JSON)
ResolveMisnumbered ==
    /\ lock = "free"
    /\ peers /= {}
    /\ \E first \in MisnumberedResponses, rest \in ResponseLists(Cardinality(peers) - 1) :
          ResolveConflictsDone(resolve_conflicts(Ledger, <<first>> \o rest))
    /\ UNCHANGED <<thread_vars, peers, sent>>
    /\ UNCHANGED <<pool_vars, storage_vars, shared_vars, net_vars>>

\* What a peer may put into a block instead of one coinbase transaction of
\* MINING_REWARD: nothing, two coinbase transactions, or a coinbase of twice the amount
CoinKinds == {"none", "double", "big"}

MiscoinedData(kind, t) ==
    CASE kind = "none" -> <<>>
      [] kind = "double" -> <<create_coinbase(OtherAddress, MINING_REWARD, t),
                              create_coinbase(MyAddress, MINING_REWARD, t)>>
      [] OTHER -> <<create_coinbase(OtherAddress, 2 * MINING_REWARD, t)>>

\* a block mined on `prev` as an honest block is, over such data
Miscoined(prev, kind, t) ==
    _python_proof_of_work(Block(prev.index + 1, t, MiscoinedData(kind, t), prev.hash, 0))

\* An answer of a peer to GET /chain: this node's chain and one such block.
MiscoinedResponses ==
    IF Len(chain) < MaxChain /\ now <= MaxTime
    THEN {[status |-> 200, length |-> Len(chain) + 1,
           chain |-> Append(chain, Miscoined(get_latest_block(chain), kind, now)),
           ticks |-> 1] : kind \in CoinKinds}
    ELSE {}

\* Node.resolve_conflicts run with no other thread in between, the first peer asked
\* offering such a block
ResolveMiscoined ==
    /\ lock = "free"
    /\ peers /= {}
    /\ \E first \in MiscoinedResponses, rest \in ResponseLists(Cardinality(peers) - 1) :
          ResolveConflictsDone(resolve_conflicts(Ledger, <<first>> \o rest))
    /\ UNCHANGED <<thread_vars, peers, sent>>
    /\ UNCHANGED <<pool_vars, storage_vars, shared_vars, net_vars>>

\* ------------------------------------------ resolve_conflicts and faulty peers
\* What requests.get(f"{peer}/chain") and the reading of the body come to.  reached is
\* FALSE when the request raises (ConnectionError, Timeout); is_json is FALSE when
\* response.json() raises; length is the body's 'length' entry: given or not, a
\* number or not; has_chain tells whether the body has a 'chain' entry and entries_ok
\* whether every block of it has the six fields.
NoLength == [given |-> FALSE, numeric |-> FALSE, value |-> 0]
NumberLength(n) == [given |-> TRUE, numeric |-> TRUE, value |-> n]
TextLength == [given |-> TRUE, numeric |-> FALSE, value |-> 0]

\* a body as a peer's /chain handler writes it, around the response resp
WellFormed(resp) ==
    [reached |-> TRUE, status |-> resp.status, is_json |-> TRUE,
     length |-> NumberLength(resp.length), has_chain |-> TRUE, entries_ok |-> TRUE,
     chain |-> resp.chain, ticks |-> resp.ticks]

\* the ways one answer can go wrong, each over a body that holds one honest block more
\* than this node's chain and would be adopted if it were read: the peer is
\* unreachable or times out, answers 404, sends text that is not JSON, a length that
\* is not a number, no 'chain' entry, or blocks that lack a field
FaultyAnswers ==
    IF Len(chain) < MaxChain /\ now <= MaxTime
    THEN LET good == WellFormed(ChainResponse(chain, <<"honest">>, Len(chain) + 1))
         IN  {[good EXCEPT !.reached = FALSE],
              [good EXCEPT !.status = 404],
              [good EXCEPT !.is_json = FALSE],
              [good EXCEPT !.length = TextLength],
              [good EXCEPT !.has_chain = FALSE],
              [good EXCEPT !.entries_ok = FALSE]}
    ELSE {[WellFormed([status |-> 200, length |-> 0, chain |-> <<>>, ticks |-> 0])
              EXCEPT !.reached = FALSE]}

\* a body without a 'length' entry: data.get('length', 0) reads 0
Unlabelled ==
    IF Len(chain) < MaxChain /\ now <= MaxTime
    THEN {[WellFormed(ChainResponse(chain, <<"honest">>, Len(chain) + 1))
              EXCEPT !.length = NoLength]}
    ELSE {}

ChainAnswers == {WellFormed(resp) : resp \in PeerResponses} \cup FaultyAnswers \cup Unlabelled

\* the answer makes resolve_conflicts raise inside its loop, or is not a 200
Faulty(a) ==
    \/ ~a.reached
    \/ a.status /= 200
    \/ ~a.is_json
    \/ a.length.given /\ ~a.length.numeric
    \/ ~a.has_chain
    \/ ~a.entries_ok

\* Node.resolve_conflicts lines 509-542, one pass of the loop: the request, the status,
\* the body, the length, the blocks, the validation; `continue` and the `except`
\* clauses of lines 538-542 leave the locals as they are
ProcessAnswer(r, a) ==
    IF ~a.reached THEN r
    ELSE IF a.status /= 200 THEN r
    ELSE IF ~a.is_json THEN r
    ELSE IF a.length.given /\ ~a.length.numeric THEN r
    ELSE IF a.length.value <= r.max_length THEN r
    ELSE IF ~a.has_chain THEN r
    ELSE IF ~a.entries_ok THEN r
    ELSE ProcessPeerChain(r, [status |-> 200, length |-> a.length.value, chain |-> a.chain])

RECURSIVE ScanAnswers(_, _, _)
\* Node.resolve_conflicts lines 508-542, the whole loop over the peers' answers
ScanAnswers(r, ticks, answers) ==
    IF answers = <<>> THEN [r |-> r, ticks |-> ticks]
    ELSE ScanAnswers(ProcessAnswer(r, Head(answers)),
                     IF ProcessAnswer(r, Head(answers)) /= r
                     THEN Head(answers).ticks ELSE ticks,
                     Tail(answers))

\* Node.resolve_conflicts run with no other thread in between, on the answers as the
\* loop receives them
resolve_conflicts_answered(L, answers) ==
    ResolveOutcome(L, ScanAnswers([IdleResolver EXCEPT !.max_length = Len(L.chain)], 0, answers))

\* one answer for each peer, in the order of the loop; of three peers the first fails
AnswerLists(n) ==
    IF n = 0 THEN {<<>>}
    ELSE IF n = 1 THEN {<<a>> : a \in ChainAnswers}
    ELSE IF n = 2 THEN {<<a, b>> : a \in ChainAnswers, b \in ChainAnswers}
    ELSE {<<a, b, c>> : a \in FaultyAnswers, b \in ChainAnswers, c \in ChainAnswers}

\* the answers that cast a vote
Voting(answers) == SelectSeq(answers, LAMBDA a : ~Faulty(a))

\* the greatest length of a chain that an answer offers in a readable body, under its
\* true length and passing is_valid_chain; 0 without one
Offered(answers) ==
    LET lens == {Len(answers[i].chain) : i \in
                    {j \in DOMAIN answers :
                        /\ ~Faulty(answers[j])
                        /\ answers[j].length.given
                        /\ answers[j].length.value = Len(answers[j].chain)
                        /\ is_valid_chain(answers[j].chain)}}
    IN  IF lens = {} THEN 0 ELSE CHOOSE n \in lens : \A k \in lens : k <= n

ResolveAnsweredDone(L, answers, out) ==
    /\ SetLedger(out.ledger)
    /\ now' = now + out.ticks
    /\ last' = [op |-> "resolve_conflicts_answered", ret |-> out.ret,
                faulty |-> {i \in DOMAIN answers : Faulty(answers[i])},
                asked |-> Len(answers),
                own_len |-> Len(L.chain),
                offered |-> Offered(answers),
                without |-> resolve_conflicts_answered(L, Voting(answers))]

\* Node.resolve_conflicts called with no other thread in between, the peers answering
\* or failing as they please
ResolveAnswered ==
    /\ lock = "free"
    /\ \E answers \in AnswerLists(Cardinality(peers)) :
          ResolveAnsweredDone(Ledger, answers, resolve_conflicts_answered(Ledger, answers))
    /\ UNCHANGED <<thread_vars, peers, sent>>
    /\ UNCHANGED <<pool_vars, storage_vars, shared_vars, net_vars>>

\* ---------------------------------------------------------------- handlers
\* network/app.py receive_block lines 694-724, with add_block's answer at hand
ReceiveBlockWith(block, r) ==
    IF block.index = get_latest_block(chain).index + 1 /\ r.ret
    THEN /\ Len(chain) < MaxChain
         /\ SetLedger(cleanup_pending_transactions(r.ledger).ledger)
         /\ now' = now + 1
         /\ UNCHANGED resolver
    ELSE IF block.index > get_latest_block(chain).index + 1
    THEN /\ ResolveBegin("receive_block")
         /\ UNCHANGED <<ledger_vars, now>>
    ELSE UNCHANGED <<ledger_vars, now, resolver>>

\* POST /receive_block (network/app.py receive_block).  A block two or more ahead
\* starts resolve_conflicts, which then runs as the resolver does.
ReceiveBlock ==
    /\ lock = "free"
    /\ now <= MaxTime
    /\ \E block \in IncomingBlocks : ReceiveBlockWith(block, add_block(Ledger, block))
    /\ UNCHANGED <<lock, peers, miner, reader, sent, last>>
    /\ UNCHANGED <<pool_vars, storage_vars, shared_vars, net_vars>>

\* what POST /receive_block answers, and the ledger after the call
BlockAnswer(st, msg, led, ticks) ==
    [status |-> st, success |-> st < 400, message |-> msg, ledger |-> led, ticks |-> ticks]

\* receive_block that turns a block from further ahead away
receive_block_rejecting_ahead(L, block, added, r) ==
    IF block.index = get_latest_block(L.chain).index + 1 /\ added.ret
    THEN BlockAnswer(201, "Block accepted", cleanup_pending_transactions(added.ledger).ledger, 1)
    ELSE IF block.index > get_latest_block(L.chain).index + 1
    THEN BlockAnswer(400, "Invalid block", L, 0)
    ELSE BlockAnswer(200, "Block already processed", L, 0)

\* network/app.py receive_block lines 694-724 run with no other thread in between;
\* `added` is what add_block(block) answers and `r` what resolve_conflicts does, each
\* called only in its case
receive_block(L, block, added, r) ==
    IF block.index = get_latest_block(L.chain).index + 1 /\ added.ret
    THEN BlockAnswer(201, "Block accepted", cleanup_pending_transactions(added.ledger).ledger, 1)
    ELSE IF block.index > get_latest_block(L.chain).index + 1
    THEN BlockAnswer(200, "Chain synced", cleanup_pending_transactions(r.ledger).ledger, r.ticks)
    ELSE BlockAnswer(200, "Block already processed", L, 0)

ReceiveBlockDone(block, out) ==
    /\ Len(out.ledger.chain) <= MaxChain
    /\ SetLedger(out.ledger)
    /\ now' = now + out.ticks
    /\ now' <= MaxApiTime + 1
    /\ last' = [op |-> "receive_block",
                args |-> <<block.index, get_latest_block(chain).index>>,
                ret |-> <<out.status, out.message>>]

\* POST /receive_block with any block of a peer, the peers answering GET /chain as
\* they please
ReceiveBlockCall ==
    /\ lock = "free"
    /\ \E block \in IncomingBlocks, responses \in ResponseLists(Cardinality(peers)) :
          ReceiveBlockDone(block, receive_block(Ledger, block, add_block(Ledger, block),
                                                resolve_conflicts(Ledger, responses)))
    /\ UNCHANGED <<thread_vars, peers, sent>>
    /\ UNCHANGED <<pool_vars, storage_vars, shared_vars, net_vars>>

\* POST /receive_block with such a block (lines 684-693 take every field from the
\* request's JSON), the peers answering GET /chain as they please
ReceiveMiscoined ==
    /\ lock = "free"
    /\ \E kind \in CoinKinds, responses \in ResponseLists(Cardinality(peers)) :
          LET block == Miscoined(get_latest_block(chain), kind, now)
          IN ReceiveBlockDone(block, receive_block(Ledger, block, add_block(Ledger, block),
                                                   resolve_conflicts(Ledger, responses)))
    /\ UNCHANGED <<thread_vars, peers, sent>>
    /\ UNCHANGED <<pool_vars, storage_vars, shared_vars, net_vars>>

\* pending_transactions.append(tx)
Admit(L, tx) == [L EXCEPT !.pending = Append(@, tx)]

\* network/app.py receive_transaction lines 457-458, after is_transaction_mined
AdmitUnlessMined(L3, tx) == IF tx.tx_id \in L3.mined THEN L3 ELSE Admit(L3, tx)

\* the status and message answered, and the ledger after the call
Received(st, msg, led) == [status |-> st, message |-> msg, ledger |-> led]

\* network/app.py receive_transaction lines 453-460, with validate_transaction's answer
ReceiveValidated(v, tx) ==
    IF v.ok THEN Received(201, "Transaction received", Admit(v.ledger, tx))
    ELSE IF tx.tx_type = TT_AUTO_TRANSFER
         THEN Received(201, "Transaction received",
                       AdmitUnlessMined(get_mined_transaction_ids(v.ledger), tx))
    ELSE Received(201, "Transaction received", v.ledger)

\* receive_transaction as it would be without the is_transaction_mined check of
\* lines 444-445
ReceiveChecked_without_mined_check(L1, tx) ==
    IF tx.tx_id \in TxIdsOf(L1.pending) THEN Received(200, "Transaction already pending", L1)
    ELSE ReceiveValidated(validate_transaction(L1, tx, TRUE), tx)

\* network/app.py receive_transaction lines 444-452, after is_transaction_mined
ReceiveChecked(L1, tx) ==
    IF tx.tx_id \in L1.mined THEN Received(200, "Transaction already mined", L1)
    ELSE IF tx.tx_id \in TxIdsOf(L1.pending) THEN Received(200, "Transaction already pending", L1)
    ELSE ReceiveValidated(validate_transaction(L1, tx, TRUE), tx)

\* POST /receive_transaction (network/app.py receive_transaction): the status and
\* message answered and the ledger after the call
receive_transaction(L, tx) ==
    IF tx.tx_id = NoTxId THEN Received(400, "Invalid transaction", L)
    ELSE ReceiveChecked(get_mined_transaction_ids(L), tx)

ReceiveTransactionDone(r) ==
    /\ Len(r.ledger.pending) <= MaxPending
    /\ SetLedger(r.ledger)
    /\ now' = IF r.ledger.pending /= pending_transactions THEN now + 1 ELSE now
    /\ now' <= MaxApiTime + 1
    /\ last' = [op |-> "receive_transaction", ret |-> <<r.status, r.message>>]

ReceiveTransaction ==
    /\ lock = "free"
    /\ \E tx \in TxInputs : ReceiveTransactionDone(receive_transaction(Ledger, tx))
    /\ UNCHANGED <<lock, peers, miner, resolver, reader, sent>>
    /\ UNCHANGED <<pool_vars, storage_vars, shared_vars, net_vars>>

\* a tx_id that is the hash of other content
ForgedId(tx) == TxHash("forged", tx.receiver, tx.amount, tx.timestamp)

\* Transaction dicts a peer posts to /receive_transaction under a tx_id of its choice
Forge(tx) == [tx EXCEPT !.tx_id = ForgedId(tx)]

ForgedTxs ==
    {Forge(SignedTx(MyAddress, OtherAddress, 5, TT_TRANSFER, now)),
     Forge(SignedTx(OtherAddress, MyAddress, 5, TT_TRANSFER, now)),
     Forge(SignedTx(OtherAddress, MyAddress, 5, TT_AUTO_TRANSFER, now))}

ReceiveForged ==
    /\ lock = "free"
    /\ \E tx \in ForgedTxs : ReceiveTransactionDone(receive_transaction(Ledger, tx))
    /\ UNCHANGED <<lock, peers, miner, resolver, reader, sent>>
    /\ UNCHANGED <<pool_vars, storage_vars, shared_vars, net_vars>>

RECURSIVE PendingOutgoing(_, _)
\* sum(float(tx["amount"]) for tx in pending_transactions if tx["sender"] == address)
PendingOutgoing(p, address) ==
    IF p = <<>> THEN 0
    ELSE (IF Head(p).sender = address THEN Head(p).amount ELSE 0) + PendingOutgoing(Tail(p), address)

\* Node.get_available_balance
get_available_balance(L) ==
    Max(0, get_balance(L, MyAddress) - PendingOutgoing(L.pending, MyAddress))

\* Node._broadcast_transaction: the set of transactions handed to it
_broadcast_transaction(s, tx) == s \cup {tx.tx_id}

\* Node.create_transfer lines 947-966: the signed transaction is appended and broadcast
TransferOn(L1, s, tx) ==
    [ret |-> TRUE, ledger |-> Admit(L1, tx), sent |-> _broadcast_transaction(s, tx)]

\* create_transfer as it would be with the append of line 959 made before the
\* balance check of lines 941-945
create_transfer_append_first(L, s, receiver, amount, tx_type, t) ==
    IF amount <= 0 THEN [ret |-> FALSE, ledger |-> L, sent |-> s]
    ELSE IF receiver = MyAddress THEN [ret |-> FALSE, ledger |-> L, sent |-> s]
    ELSE IF get_available_balance(L) < amount
         THEN [ret |-> FALSE,
               ledger |-> Admit(EnsureBalances(L),
                                SignedTx(MyAddress, receiver, amount, tx_type, t)),
               sent |-> s]
    ELSE TransferOn(EnsureBalances(L), s, SignedTx(MyAddress, receiver, amount, tx_type, t))

\* Node.create_transfer at time t: the value returned, the ledger and the broadcasts
\* after the call
create_transfer(L, s, receiver, amount, tx_type, t) ==
    IF amount <= 0 THEN [ret |-> FALSE, ledger |-> L, sent |-> s]
    ELSE IF receiver = MyAddress THEN [ret |-> FALSE, ledger |-> L, sent |-> s]
    ELSE IF get_available_balance(L) < amount
         THEN [ret |-> FALSE, ledger |-> EnsureBalances(L), sent |-> s]
    ELSE TransferOn(EnsureBalances(L), s, SignedTx(MyAddress, receiver, amount, tx_type, t))

CreateTransferDone(r) ==
    /\ Len(r.ledger.pending) <= MaxPending
    /\ SetLedger(r.ledger)
    /\ sent' = r.sent
    /\ now' = IF r.ret THEN now + 1 ELSE now
    /\ now' <= MaxApiTime + 1
    /\ last' = [op |-> "create_transfer", ret |-> r.ret]

\* POST /transfer and the auto-transfer loop: Node.create_transfer
CreateTransfer ==
    /\ lock = "free"
    /\ \E receiver \in {MyAddress, OtherAddress}, amount \in Amounts,
          tx_type \in {TT_TRANSFER, TT_AUTO_TRANSFER} :
          CreateTransferDone(create_transfer(Ledger, sent, receiver, amount, tx_type, now))
    /\ UNCHANGED <<lock, peers, miner, resolver, reader>>
    /\ UNCHANGED <<pool_vars, storage_vars, shared_vars, net_vars>>

\* The JSON bodies posted to /transaction: sender, receiver, amount, signature,
\* public_key.  A client signs for the timestamp the node is about to give the
\* transaction, or does not.
Request(sd, rc, a, sg, pk) ==
    [sender |-> sd, receiver |-> rc, amount |-> a, signature |-> sg, public_key |-> pk]

TransactionRequests ==
    {Request(MyAddress, rc, a, NoSignature, "") :
        rc \in {"", MyAddress, OtherAddress}, a \in Amounts} \cup
    {Request(OtherAddress, rc, a, WalletSign("pkB", TxHash(OtherAddress, rc, a, now)), "pkB") :
        rc \in {"", MyAddress, OtherAddress}, a \in Amounts} \cup
    {Request(OtherAddress, MyAddress, a, WalletSign("pkB", <<>>), "pkB") : a \in {5, 15}} \cup
    {Request(OtherAddress, MyAddress, 5, NoSignature, "pkB"),
     Request(OtherAddress, MyAddress, 5, WalletSign("pkB", <<>>), ""),
     Request(COINBASE_ADDRESS, MyAddress, 5, WalletSign("pkB", <<>>), "pkB")}

\* the status and error answered, the ledger and the broadcasts after the call
Answer(st, err, led, snt) == [status |-> st, error |-> err, ledger |-> led, sent |-> snt]

\* network/app.py create_transaction lines 380-392, with create_transfer's answer
OwnAnswer(own, s) ==
    IF own.ret THEN Answer(201, "", own.ledger, own.sent)
    ELSE Answer(400, ERR_BALANCE, EnsureBalances(own.ledger), s)

\* network/app.py create_transaction lines 413-431, with validate_transaction's answer
ExternalAnswer(v, s, tx) ==
    IF ~v.ok THEN Answer(400, v.error, v.ledger, s)
    ELSE IF tx.tx_id \in TxIdsOf(v.ledger.pending)
         THEN Answer(400, "Duplicate transaction", v.ledger, s)
    ELSE Answer(201, "", Admit(v.ledger, tx), _broadcast_transaction(s, tx))

\* network/app.py create_transaction lines 401-431
External(L, s, tx) == ExternalAnswer(validate_transaction(L, tx, TRUE), s, tx)

\* POST /transaction (network/app.py create_transaction) at time t: the status and
\* error answered, the ledger and the broadcasts after the call
create_transaction(L, s, data, t) ==
    IF data.receiver = "" THEN Answer(400, "Receiver address is required", L, s)
    ELSE IF data.amount <= 0 THEN Answer(400, ERR_AMOUNT, L, s)
    ELSE IF data.sender = MyAddress
         THEN OwnAnswer(create_transfer(L, s, data.receiver, data.amount, TT_TRANSFER, t), s)
    ELSE IF data.signature = NoSignature \/ data.public_key = ""
         THEN Answer(400, "Signature and public_key required for external transactions", L, s)
    ELSE External(L, s, TxDict(data.sender, data.receiver, data.amount, data.signature,
                               TT_TRANSFER, data.public_key, t))

CreateTransactionDone(r) ==
    /\ Len(r.ledger.pending) <= MaxPending
    /\ SetLedger(r.ledger)
    /\ sent' = r.sent
    /\ now' = IF r.status = 201 THEN now + 1 ELSE now
    /\ now' <= MaxApiTime + 1
    /\ last' = [op |-> "create_transaction", ret |-> <<r.status, r.error>>]

CreateTransaction ==
    /\ lock = "free"
    /\ \E data \in TransactionRequests :
          CreateTransactionDone(create_transaction(Ledger, sent, data, now))
    /\ UNCHANGED <<lock, peers, miner, resolver, reader>>
    /\ UNCHANGED <<pool_vars, storage_vars, shared_vars, net_vars>>

\* A URL is the sequence of its pieces (scheme, host with colon, port digits, further
\* characters); the string is their concatenation.  This node listens on NODE_PORT and
\* HOST_IP is unset ("localhost").
NODE_PORT == "3000"
Url(scheme, host, port_text) == <<scheme, host, port_text>>

Identifiers ==
    {<<"localhost:", NODE_PORT>>, <<"127.0.0.1:", NODE_PORT>>, <<"0.0.0.0:", NODE_PORT>>}

\* The URLs posted to /add_peer, /announce_peer and /register_node; this node
\* is http://localhost:3000.
PeerUrls == {<<>>, Url("ftp://", "10.0.0.2:", "3001"), Url("http://", "localhost:", NODE_PORT),
             Url("http://", "10.0.0.2:", "3001"), Url("http://", "10.0.0.3:", "3002")}

\* further URLs met in the peer lists of other nodes: an https peer, this node under
\* another name, a neighbour on port 30001, a host:port without scheme
MoreUrls == {Url("https://", "10.0.0.4:", "3003"), Url("http://", "127.0.0.1:", NODE_PORT),
             <<"http://", "localhost:", NODE_PORT, "1">>, <<"localhost:", NODE_PORT>>}

AllUrls == PeerUrls \cup MoreUrls

\* x in url (Python substring test)
Contains(url, x) ==
    \E i \in 1..(Len(url) - Len(x) + 1) : SubSeq(url, i, i + Len(x) - 1) = x

\* peer_url.startswith("http://") or peer_url.startswith("https://")
HasHttpScheme(url) == Len(url) >= 1 /\ (url[1] = "http://" \/ url[1] = "https://")

\* Node._is_me that recognises nothing
_is_me_never(url) == FALSE

\* Node._is_me
_is_me(url) == url /= <<>> /\ \E x \in Identifiers : Contains(url, x)

\* Node.add_peer: the value returned and the peer set after the call
add_peer(P, peer_url) ==
    IF peer_url = <<>> THEN [ret |-> FALSE, peers |-> P]
    ELSE IF ~HasHttpScheme(peer_url) THEN [ret |-> FALSE, peers |-> P]
    ELSE IF _is_me(peer_url) THEN [ret |-> FALSE, peers |-> P]
    ELSE IF peer_url \in P THEN [ret |-> TRUE, peers |-> P]
    ELSE [ret |-> TRUE, peers |-> P \cup {peer_url}]

AddPeer ==
    /\ \E url \in PeerUrls : peers' = add_peer(peers, url).peers
    /\ UNCHANGED <<ledger_vars, thread_vars, now, sent, last>>
    /\ UNCHANGED <<pool_vars, storage_vars, shared_vars, net_vars>>

\* Node.remove_peer
remove_peer(P, peer_url) ==
    IF peer_url \in P THEN [ret |-> TRUE, peers |-> P \ {peer_url}]
    ELSE [ret |-> FALSE, peers |-> P]

\* an entry of the "peers" list a peer answers GET /peers with: a JSON string or not
StrEntry(url) == [is_str |-> TRUE, text |-> url]
OtherEntry == [is_str |-> FALSE, text |-> <<"42">>]

NoPeerAnswer == [ok |-> FALSE, peers |-> <<>>]
PeerAnswer(entries) == [ok |-> TRUE, peers |-> entries]

\* what a peer may answer to GET /peers
PeerAnswers ==
    {NoPeerAnswer,
     PeerAnswer(<<>>),
     PeerAnswer(<<StrEntry(Url("http://", "10.0.0.2:", "3001")),
                  StrEntry(Url("http://", "10.0.0.3:", "3002")),
                  StrEntry(Url("http://", "localhost:", NODE_PORT))>>),
     PeerAnswer(<<StrEntry(Url("https://", "10.0.0.4:", "3003")), OtherEntry,
                  StrEntry(Url("ftp://", "10.0.0.2:", "3001"))>>),
     PeerAnswer(<<StrEntry(Url("http://", "10.0.0.3:", "3002")),
                  StrEntry(Url("http://", "10.0.0.3:", "3002")),
                  StrEntry(Url("http://", "127.0.0.1:", NODE_PORT))>>),
     PeerAnswer(<<StrEntry(<<"http://", "localhost:", NODE_PORT, "1">>),
                  StrEntry(<<"localhost:", NODE_PORT>>), StrEntry(<<>>)>>)}

\* node.py lines 392-401: the entries of one answer that go into new_peers
Discovered(current_peers, answer) ==
    IF ~answer.ok THEN {}
    ELSE {answer.peers[i].text : i \in
             {j \in DOMAIN answer.peers :
                 /\ answer.peers[j].is_str
                 /\ HasHttpScheme(answer.peers[j].text)
                 /\ answer.peers[j].text \notin current_peers
                 /\ ~_is_me(answer.peers[j].text)}}

\* Node.discover_peers_from_network: answers[p] is what peer p answers
discover_peers_from_network(P, answers) ==
    [ret |-> Cardinality(UNION {Discovered(P, answers[p]) : p \in P}),
     peers |-> P \cup UNION {Discovered(P, answers[p]) : p \in P}]

PeerDone(op, args, r) ==
    /\ peers' = r.peers
    /\ last' = [op |-> op, args |-> args, ret |-> r.ret]

peer_rest == <<ledger_vars, thread_vars, now, sent, pool_vars, storage_vars, shared_vars, net_vars>>

\* POST /add_peer, /announce_peer, /register_node (app.py lines 287-343) with any URL
AddPeerCall ==
    /\ \E url \in AllUrls : PeerDone("add_peer", <<url>>, add_peer(peers, url))
    /\ UNCHANGED peer_rest

RemovePeer ==
    /\ \E url \in AllUrls : PeerDone("remove_peer", <<url>>, remove_peer(peers, url))
    /\ UNCHANGED peer_rest

\* the periodic peer discovery (node.py line 575)
DiscoverPeers ==
    /\ \E answers \in [peers -> PeerAnswers] :
          PeerDone("discover_peers_from_network", <<>>,
                   discover_peers_from_network(peers, answers))
    /\ UNCHANGED peer_rest

\* --------------------------------------------------- calls of the Ledger
ValidateTransactionDone(check_chain, v) ==
    /\ SetLedger(v.ledger)
    /\ last' = [op |-> "validate_transaction", ret |-> <<check_chain, v.ok, v.error>>]

\* Blockchain.validate_transaction called with any transaction dict
ValidateTransaction ==
    /\ lock = "free"
    /\ \E tx \in TxInputs, check_chain \in BOOLEAN :
          ValidateTransactionDone(check_chain, validate_transaction(Ledger, tx, check_chain))
    /\ UNCHANGED <<thread_vars, peers, now, sent>>
    /\ UNCHANGED <<pool_vars, storage_vars, shared_vars, net_vars>>

ReplaceChainDone(resp, r) ==
    /\ SetLedger(r.ledger)
    /\ now' = IF r.ret THEN now + resp.ticks ELSE now
    /\ last' = [op |-> "replace_chain", ret |-> r.ret]

\* Blockchain.replace_chain called with a chain a peer offers
ReplaceChain ==
    /\ lock = "free"
    /\ \E resp \in PeerResponses : ReplaceChainDone(resp, replace_chain(Ledger, resp.chain))
    /\ UNCHANGED <<thread_vars, peers, sent>>
    /\ UNCHANGED <<pool_vars, storage_vars, shared_vars, net_vars>>

CleanupPendingDone(r) ==
    /\ SetLedger(r.ledger)
    /\ last' = [op |-> "cleanup_pending_transactions", ret |-> r.removed]

\* Blockchain.cleanup_pending_transactions (sync_with_network, receive_block)
CleanupPending ==
    /\ lock = "free"
    /\ CleanupPendingDone(cleanup_pending_transactions(Ledger))
    /\ UNCHANGED <<thread_vars, peers, now, sent>>
    /\ UNCHANGED <<pool_vars, storage_vars, shared_vars, net_vars>>

AddBlockDone(r) ==
    /\ Len(r.ledger.chain) <= MaxChain
    /\ SetLedger(r.ledger)
    /\ now' = IF r.ret THEN now + 1 ELSE now
    /\ now' <= MaxApiTime + 1
    /\ last' = [op |-> "add_block", ret |-> r.ret]

\* Blockchain.add_block called with a block a peer sends
AddBlock ==
    /\ lock = "free"
    /\ \E block \in IncomingBlocks : AddBlockDone(add_block(Ledger, block))
    /\ UNCHANGED <<thread_vars, peers, sent>>
    /\ UNCHANGED <<pool_vars, storage_vars, shared_vars, net_vars>>

MineBlockDone(r) ==
    /\ SetLedger(r.ledger)
    /\ last' = [op |-> "mine_block", ret |-> r.block.index]

\* Blockchain.mine_block called by one thread (GET /mine, the mining loop)
MineBlock ==
    /\ lock = "free"
    /\ now <= MaxApiTime
    /\ Len(chain) < MaxChain
    /\ MineBlockDone(mine_block(Ledger, MyAddress, now))
    /\ now' = now + 1
    /\ UNCHANGED <<thread_vars, peers, sent>>
    /\ UNCHANGED <<pool_vars, storage_vars, shared_vars, net_vars>>

\* ------------------------------------------------- spending, over longer chains
MaxSpendChain == 5      \* blocks in a chain, where transfers are mined one per block
MaxSpendTime == 7       \* reads of time.time() on the way there

\* Transfers a peer posts to /receive_transaction, signed by their senders
SpendInputs ==
    {SignedTx(MyAddress, OtherAddress, 5, TT_TRANSFER, now),
     SignedTx(OtherAddress, MyAddress, 5, TT_TRANSFER, now),
     SignedTx(OtherAddress, MyAddress, 15, TT_TRANSFER, now)}

SpendReceiveDone(r) ==
    /\ Len(r.ledger.pending) <= MaxPending
    /\ SetLedger(r.ledger)
    /\ now' = IF r.ledger.pending /= pending_transactions THEN now + 1 ELSE now
    /\ now' <= MaxSpendTime + 1
    /\ last' = [op |-> "receive_transaction", ret |-> <<r.status, r.message>>]

\* POST /receive_transaction with a signed transfer
SpendReceive ==
    /\ lock = "free"
    /\ \E tx \in SpendInputs : SpendReceiveDone(receive_transaction(Ledger, tx))
    /\ UNCHANGED <<lock, peers, miner, resolver, reader, sent>>
    /\ UNCHANGED <<pool_vars, storage_vars, shared_vars, net_vars>>

\* Blockchain.mine_block called by one thread (GET /mine, the mining loop)
SpendMine ==
    /\ lock = "free"
    /\ now <= MaxSpendTime
    /\ Len(chain) < MaxSpendChain
    /\ MineBlockDone(mine_block(Ledger, MyAddress, now))
    /\ now' = now + 1
    /\ UNCHANGED <<thread_vars, peers, sent>>
    /\ UNCHANGED <<pool_vars, storage_vars, shared_vars, net_vars>>

\* ------------------------------------------------- the mempool's threads
\* Transactions that travel by gossip: a transfer signed by this node's wallet, a
\* transfer signed by another wallet, and an auto-transfer that carries no signature.
GossipTxs ==
    {SignedTx(MyAddress, OtherAddress, 5, TT_TRANSFER, 0),
     SignedTx(OtherAddress, MyAddress, 5, TT_TRANSFER, 0),
     TxDict(OtherAddress, MyAddress, 15, NoSignature, TT_AUTO_TRANSFER, "", 0)}

\* network/app.py receive_transaction up to its append (lines 437-453, 455-457): the
\* transaction is kept in the thread's locals if line 454 or 458 is reached
ReceiveDecided(tx, r) ==
    /\ SetLedger([r.ledger EXCEPT !.pending = pending_transactions])
    /\ handler' = IF r.ledger.pending /= pending_transactions
                  THEN [pc |-> "append", tx |-> tx]
                  ELSE IdleHandler

\* POST /receive_transaction in a request thread (app.run(threaded=True)): the checks
ReceiveDecide ==
    /\ handler.pc = "idle"
    /\ lock = "free"
    /\ \E tx \in GossipTxs : ReceiveDecided(tx, receive_transaction(Ledger, tx))
    /\ UNCHANGED <<lock, peers, now, miner, resolver, reader, sent, last, puller, storage_vars,
                   shared_vars, net_vars, cleaner>>

\* network/app.py receive_transaction lines 454 / 458: pending_transactions.append(tx)
ReceiveAppend ==
    /\ handler.pc = "append"
    /\ Len(pending_transactions) < MaxPending
    /\ pending_transactions' = Append(pending_transactions, handler.tx)
    /\ handler' = IdleHandler
    /\ UNCHANGED <<chain, _balance_cache, _mined_tx_cache, _cache_chain_length,
                   lock, peers, now, miner, resolver, reader, sent, last, puller, storage_vars,
                   shared_vars, net_vars, cleaner>>

\* Node._sync_pending_transactions lines 589-597, with the ledger after the cleanup
\* and the mined-id lookup
PullStarted(L2) ==
    /\ SetLedger(L2)
    /\ puller' = [pc |-> "pull", todo |-> peers, existing_tx_ids |-> TxIdsOf(L2.pending),
                  mined_tx_ids |-> L2.mined, tx |-> NoTx]

\* Node._sync_pending_transactions lines 589-597, in the sync thread
PullStart ==
    /\ puller.pc = "idle"
    /\ lock = "free"
    /\ PullStarted(get_mined_transaction_ids(cleanup_pending_transactions(Ledger).ledger))
    /\ UNCHANGED <<lock, peers, now, miner, resolver, reader, sent, last, handler, storage_vars,
                   shared_vars, net_vars, cleaner>>

\* Node._sync_pending_transactions lines 609-610, with validate_transaction's answer
PullValidated(p, tx, v) ==
    /\ SetLedger(v.ledger)
    /\ puller' = [puller EXCEPT !.todo = @ \ {p},
                                !.pc = IF v.ok THEN "append" ELSE "pull",
                                !.tx = IF v.ok THEN tx ELSE NoTx]

\* Node._sync_pending_transactions lines 601-610: the next peer answers GET /mempool
\* with one transaction, or with none
PullFetch ==
    /\ puller.pc = "pull"
    /\ lock = "free"
    /\ \E p \in puller.todo :
          \/ /\ puller' = [puller EXCEPT !.todo = @ \ {p}]
             /\ UNCHANGED ledger_vars
          \/ \E tx \in GossipTxs :
                IF tx.tx_id /= NoTxId /\ tx.tx_id \notin puller.existing_tx_ids
                      /\ tx.tx_id \notin puller.mined_tx_ids
                THEN PullValidated(p, tx, validate_transaction(Ledger, tx, TRUE))
                ELSE /\ puller' = [puller EXCEPT !.todo = @ \ {p}]
                     /\ UNCHANGED ledger_vars
    /\ UNCHANGED <<lock, peers, now, miner, resolver, reader, sent, last, handler, storage_vars,
                   shared_vars, net_vars, cleaner>>

\* Node._sync_pending_transactions lines 611-612: the append, and existing_tx_ids.add
PullAppend ==
    /\ puller.pc = "append"
    /\ Len(pending_transactions) < MaxPending
    /\ pending_transactions' = Append(pending_transactions, puller.tx)
    /\ puller' = [puller EXCEPT !.pc = "pull", !.tx = NoTx,
                                !.existing_tx_ids = @ \cup {puller.tx.tx_id}]
    /\ UNCHANGED <<chain, _balance_cache, _mined_tx_cache, _cache_chain_length,
                   lock, peers, now, miner, resolver, reader, sent, last, handler, storage_vars,
                   shared_vars, net_vars, cleaner>>

\* Node._sync_pending_transactions: every peer of peers_copy has been asked
PullDone ==
    /\ puller.pc = "pull"
    /\ puller.todo = {}
    /\ puller' = IdlePuller
    /\ UNCHANGED <<ledger_vars, lock, peers, now, miner, resolver, reader, sent, last,
                   handler, storage_vars,
                   shared_vars, net_vars, cleaner>>

\* Blockchain.cleanup_pending_transactions lines 204-211 in a thread of its own (the
\* sync thread, a /receive_block request, the mining loop): Blockchain._lock is taken,
\* the mined ids are looked up and the list comprehension builds the new list from
\* the mempool as it is.
CleanupFilter ==
    /\ cleaner.pc = "idle"
    /\ lock = "free"
    /\ SetLedger(get_mined_transaction_ids(Ledger))
    /\ cleaner' = [pc |-> "filtered",
                   kept |-> FilterPending(get_mined_transaction_ids(Ledger)).ledger.pending]
    /\ lock' = "cleaner"
    /\ UNCHANGED <<peers, now, miner, resolver, reader, sent, last, handler, puller,
                   storage_vars, shared_vars, net_vars>>

\* Blockchain.cleanup_pending_transactions line 208: the new list is assigned to
\* self.pending_transactions; the lock is released.  The appends of the handlers do
\* not take Blockchain._lock.
CleanupAssign ==
    /\ cleaner.pc = "filtered"
    /\ pending_transactions' = cleaner.kept
    /\ cleaner' = IdleCleaner
    /\ lock' = "free"
    /\ UNCHANGED <<chain, _balance_cache, _mined_tx_cache, _cache_chain_length,
                   peers, now, miner, resolver, reader, sent, last, handler, puller,
                   storage_vars, shared_vars, net_vars>>

\* ------------------------------------------- the threads that ask the peers
\* node/node.py: resolve_conflicts, _broadcast_block, _broadcast_transaction,
\* _propagate_peer, discover_peers_from_network and _sync_pending_transactions, each
\* run by a thread of its own, with the locks they take: Node._sync_lock,
\* Node._peers_lock and Blockchain._lock.  A request is sent in one step and answered
\* in a later one; callers[c].awaiting is the peer asked in between.
MaxCallers == 2     \* threads inside these functions at a time
MaxPeers == 2       \* peers of the node

Active == {c \in Operations : callers[c].pc /= "idle"}

\* what the steps of these threads leave alone
call_rest ==
    <<miner, resolver, reader, sent, pool_vars, storage_vars, shared_vars, services, nodes>>

\* The function is entered.  resolve_conflicts lines 499-503: Node._sync_lock is
\* taken and max_length is read.  Their callers (the sync loop, the mining loop, the
\* request handlers, create_transfer) hold no lock when they call.
CallEnter(c) ==
    /\ c /= "_propagate_peer"
    /\ callers[c].pc = "idle"
    /\ Cardinality(Active) < MaxCallers
    /\ IF c = "resolve_conflicts"
       THEN /\ _sync_lock = "free"
            /\ _sync_lock' = c
            /\ callers' = [callers EXCEPT ![c] = [IdleCaller EXCEPT !.pc = "enter",
                                                     !.r.max_length = Len(chain)]]
       ELSE /\ callers' = [callers EXCEPT ![c] = [IdleCaller EXCEPT !.pc = "enter"]]
            /\ UNCHANGED _sync_lock
    /\ UNCHANGED <<ledger_vars, lock, peers, now, last, _peers_lock, call_rest>>

\* Node.add_peer lines 261-279 with a URL that is new: the peer is added under
\* Node._peers_lock, the lock is released and the thread of _propagate_peer is started
AddPeerPropagate ==
    /\ callers["_propagate_peer"].pc = "idle"
    /\ Cardinality(Active) < MaxCallers
    /\ _peers_lock = "free"
    /\ Cardinality(peers) < MaxPeers
    /\ \E url \in PeerUrls :
          /\ add_peer(peers, url).ret
          /\ url \notin peers
          /\ peers' = add_peer(peers, url).peers
          /\ callers' = [callers EXCEPT !["_propagate_peer"] =
                            [IdleCaller EXCEPT !.pc = "enter", !.new_peer_url = url]]
    /\ UNCHANGED <<ledger_vars, lock, now, last, _peers_lock, _sync_lock, call_rest>>

\* `with self._peers_lock:` is entered (node.py lines 294, 387, 505, 589, 730, 755)
CallLockPeers(c) ==
    /\ callers[c].pc = "enter"
    /\ _peers_lock = "free"
    /\ _peers_lock' = c
    /\ callers' = [callers EXCEPT ![c].pc = "with_peers"]
    /\ UNCHANGED <<ledger_vars, lock, peers, now, last, _sync_lock, call_rest>>

\* a peer set copied under the lock and the lock kept for the loop
CopyPeers_keeping_lock(c) == [peers_copy |-> peers, _peers_lock |-> c]

\* `with self._peers_lock: peers_copy = set(self.peers)`: the copy, and the holder of
\* the lock when the block is left
CopyPeers(c) == [peers_copy |-> peers, _peers_lock |-> "free"]

\* the copy is taken and the `with` block is left
CallCopyPeers(c) ==
    /\ callers[c].pc = "with_peers"
    /\ _peers_lock' = CopyPeers(c)._peers_lock
    /\ callers' = [callers EXCEPT ![c].peers_copy = CopyPeers(c).peers_copy,
                                  ![c].todo = CopyPeers(c).peers_copy,
                                  ![c].pc = IF c = "_sync_pending_transactions"
                                            THEN "prepare" ELSE "loop"]
    /\ UNCHANGED <<ledger_vars, lock, peers, now, last, _sync_lock, call_rest>>

\* Node._sync_pending_transactions lines 592-597: the mempool is cleaned and the ids
\* of the mempool and of the chain are read (Blockchain._lock is taken and released
\* inside the calls)
CallPrepare(c) ==
    /\ c = "_sync_pending_transactions"
    /\ callers[c].pc = "prepare"
    /\ lock = "free"
    /\ LET L2 == get_mined_transaction_ids(cleanup_pending_transactions(Ledger).ledger)
       IN  /\ SetLedger(L2)
           /\ callers' = [callers EXCEPT ![c].pc = "loop",
                                         ![c].seen = TxIdsOf(L2.pending) \cup L2.mined]
    /\ UNCHANGED <<lock, peers, now, last, _peers_lock, _sync_lock, call_rest>>

\* `for peer in peers_copy:` and requests.get / requests.post: the request to the
\* next peer is sent.  _propagate_peer passes the new peer over (line 298).
CallRequest(c) ==
    /\ callers[c].pc = "loop"
    /\ callers[c].awaiting = NoPeer
    /\ \E p \in callers[c].todo :
          callers' = [callers EXCEPT ![c].todo = @ \ {p},
                                     ![c].awaiting =
                                         IF c = "_propagate_peer" /\ p = callers[c].new_peer_url
                                         THEN NoPeer ELSE p]
    /\ UNCHANGED <<ledger_vars, lock, peers, now, last, _peers_lock, _sync_lock, call_rest>>

\* What a peer answers to GET /chain here: an error, this node's chain, or this
\* node's chain and one honest block.
ChainOffers ==
    {[status |-> 500, length |-> 0, chain |-> <<>>, ticks |-> 0],
     ChainResponse(chain, <<>>, Len(chain))} \cup
    (IF Len(chain) < MaxChain /\ now <= MaxTime
     THEN {ChainResponse(chain, <<"honest">>, Len(chain) + 1)} ELSE {})

\* resolve_conflicts lines 511-542: the peer's answer to GET /chain
ChainAnswered(c, resp) ==
    /\ callers' = [callers EXCEPT ![c].awaiting = NoPeer,
                                  ![c].r = ProcessPeerChain(@, resp)]
    /\ now' = IF ProcessPeerChain(callers[c].r, resp) /= callers[c].r
              THEN now + resp.ticks ELSE now
    /\ UNCHANGED <<ledger_vars, peers>>

\* discover_peers_from_network lines 393-401: the peer's answer to GET /peers
PeersAnswered(c, answer) ==
    /\ Cardinality(peers \cup callers[c].new_peers \cup Discovered(callers[c].peers_copy, answer))
          <= MaxPeers
    /\ callers' = [callers EXCEPT ![c].awaiting = NoPeer,
                                  ![c].new_peers = @ \cup Discovered(callers[c].peers_copy,
                                                                     answer)]
    /\ UNCHANGED <<ledger_vars, peers, now>>

\* _sync_pending_transactions lines 602-612: the peer's answer to GET /mempool holds
\* the transaction tx (validate_transaction takes Blockchain._lock and releases it)
MempoolAnswered(c, tx) ==
    IF tx.tx_id /= NoTxId /\ tx.tx_id \notin callers[c].seen
          /\ validate_transaction(Ledger, tx, TRUE).ok
    THEN /\ Len(pending_transactions) < MaxPending
         /\ SetLedger([validate_transaction(Ledger, tx, TRUE).ledger EXCEPT
                          !.pending = Append(@, tx)])
         /\ callers' = [callers EXCEPT ![c].awaiting = NoPeer, ![c].seen = @ \cup {tx.tx_id}]
         /\ UNCHANGED <<peers, now>>
    ELSE /\ SetLedger(IF tx.tx_id /= NoTxId /\ tx.tx_id \notin callers[c].seen
                      THEN validate_transaction(Ledger, tx, TRUE).ledger ELSE Ledger)
         /\ callers' = [callers EXCEPT ![c].awaiting = NoPeer]
         /\ UNCHANGED <<peers, now>>

\* _broadcast_block lines 740-743, _broadcast_transaction lines 765-768: the peer
\* answers 200 or 201, or not; _propagate_peer lines 302-308 reads no answer
PostAnswered(c, accepted) ==
    /\ callers' = [callers EXCEPT ![c].awaiting = NoPeer,
                                  ![c].count = IF accepted /\ c /= "_propagate_peer"
                                               THEN @ + 1 ELSE @]
    /\ UNCHANGED <<ledger_vars, peers, now>>

\* The awaited peer answers, or the request fails, and the answer is processed.
CallResponse(c) ==
    /\ callers[c].pc = "loop"
    /\ callers[c].awaiting /= NoPeer
    /\ CASE c = "resolve_conflicts" ->
               \E resp \in ChainOffers : ChainAnswered(c, resp)
         [] c = "discover_peers_from_network" ->
               \E answer \in PeerAnswers : PeersAnswered(c, answer)
         [] c = "_sync_pending_transactions" ->
               \/ PostAnswered(c, FALSE)
               \/ /\ lock = "free"
                  /\ \E tx \in GossipTxs : MempoolAnswered(c, tx)
         [] OTHER ->
               \E accepted \in BOOLEAN : PostAnswered(c, accepted)
    /\ UNCHANGED <<lock, last, _peers_lock, _sync_lock, call_rest>>

\* Every peer of peers_copy has been asked.  resolve_conflicts line 544-545 assigns
\* the chain it kept, if any (Blockchain._lock is not held); without one it returns
\* False and leaves Node._sync_lock.  discover_peers_from_network goes on to add what
\* it found, _propagate_peer to tell the new peer; the others return.
CallLoopDone(c) ==
    /\ callers[c].pc = "loop"
    /\ callers[c].awaiting = NoPeer
    /\ callers[c].todo = {}
    /\ CASE c = "resolve_conflicts" /\ callers[c].r.longest_chain /= <<>> ->
               /\ chain' = callers[c].r.longest_chain
               /\ callers' = [callers EXCEPT ![c].pc = "replaced"]
               /\ UNCHANGED <<pending_transactions, _balance_cache, _mined_tx_cache,
                              _cache_chain_length, _sync_lock>>
         [] c = "resolve_conflicts" /\ callers[c].r.longest_chain = <<>> ->
               /\ _sync_lock' = "free"
               /\ callers' = [callers EXCEPT ![c] = IdleCaller]
               /\ UNCHANGED ledger_vars
         [] c = "discover_peers_from_network" ->
               /\ callers' = [callers EXCEPT ![c].pc = "found"]
               /\ UNCHANGED <<ledger_vars, _sync_lock>>
         [] c = "_propagate_peer" ->
               /\ callers' = [callers EXCEPT
                     ![c].pc = "announce",
                     ![c].left = 1 + Cardinality(callers[c].peers_copy
                                                    \ {callers[c].new_peer_url})]
               /\ UNCHANGED <<ledger_vars, _sync_lock>>
         [] OTHER ->
               /\ callers' = [callers EXCEPT ![c] = IdleCaller]
               /\ UNCHANGED <<ledger_vars, _sync_lock>>
    /\ UNCHANGED <<lock, peers, now, last, _peers_lock, call_rest>>

\* resolve_conflicts line 546: `with self.blockchain._lock:` is entered
CallLockLedger(c) ==
    /\ c = "resolve_conflicts"
    /\ callers[c].pc = "replaced"
    /\ lock = "free"
    /\ lock' = c
    /\ callers' = [callers EXCEPT ![c].pc = "with_lock"]
    /\ UNCHANGED <<ledger_vars, peers, now, last, _peers_lock, _sync_lock, call_rest>>

\* resolve_conflicts lines 547-554: the caches are invalidated, Blockchain._lock is
\* released, the mempool is cleaned, the call returns True and leaves Node._sync_lock
CallInvalidate(c) ==
    /\ c = "resolve_conflicts"
    /\ callers[c].pc = "with_lock"
    /\ SetLedger(cleanup_pending_transactions(_invalidate_cache(Ledger)).ledger)
    /\ lock' = "free"
    /\ _sync_lock' = "free"
    /\ callers' = [callers EXCEPT ![c] = IdleCaller]
    /\ UNCHANGED <<peers, now, last, _peers_lock, call_rest>>

\* discover_peers_from_network line 406: `with self._peers_lock:` is entered again
CallLockFound(c) ==
    /\ c = "discover_peers_from_network"
    /\ callers[c].pc = "found"
    /\ _peers_lock = "free"
    /\ _peers_lock' = c
    /\ callers' = [callers EXCEPT ![c].pc = "adding"]
    /\ UNCHANGED <<ledger_vars, lock, peers, now, last, _sync_lock, call_rest>>

\* discover_peers_from_network lines 407-414: the peers found are added, the lock is
\* released, their number is returned
CallAddFound(c) ==
    /\ c = "discover_peers_from_network"
    /\ callers[c].pc = "adding"
    /\ peers' = peers \cup callers[c].new_peers
    /\ _peers_lock' = "free"
    /\ callers' = [callers EXCEPT ![c] = IdleCaller]
    /\ UNCHANGED <<ledger_vars, lock, now, last, _sync_lock, call_rest>>

\* _propagate_peer lines 313-325: the next request to the new peer is sent
CallAnnounce(c) ==
    /\ c = "_propagate_peer"
    /\ callers[c].pc = "announce"
    /\ callers[c].awaiting = NoPeer
    /\ callers[c].left > 0
    /\ callers' = [callers EXCEPT ![c].awaiting = callers[c].new_peer_url, ![c].left = @ - 1]
    /\ UNCHANGED <<ledger_vars, lock, peers, now, last, _peers_lock, _sync_lock, call_rest>>

\* _propagate_peer lines 311-327: the new peer answers, or the request fails and the
\* `except` of line 326 ends the function
CallAnnounced(c) ==
    /\ c = "_propagate_peer"
    /\ callers[c].pc = "announce"
    /\ callers[c].awaiting /= NoPeer
    /\ \E failed \in BOOLEAN :
          callers' = [callers EXCEPT ![c].awaiting = NoPeer,
                                     ![c].left = IF failed THEN 0 ELSE @]
    /\ UNCHANGED <<ledger_vars, lock, peers, now, last, _peers_lock, _sync_lock, call_rest>>

\* _propagate_peer returns
CallAnnounceDone(c) ==
    /\ c = "_propagate_peer"
    /\ callers[c].pc = "announce"
    /\ callers[c].awaiting = NoPeer
    /\ callers[c].left = 0
    /\ callers' = [callers EXCEPT ![c] = IdleCaller]
    /\ UNCHANGED <<ledger_vars, lock, peers, now, last, _peers_lock, _sync_lock, call_rest>>

\* ------------------------------------------------- the background services
\* node/node.py lines 616-712 and 776-854.  The node is a miner (port 3000 is one of
\* MINER_PORTS), so is_miner() holds.  A loop thread is at its `while` test, inside
\* an iteration, in the sleep that ends it, or done.  What an iteration does to the
\* ledger and the peers (resolve_conflicts, mine_block, _broadcast_block,
\* sync_with_network, create_transfer) is the subject of the actions of the other
\* specifications; here it begins and ends.  stopped is history: a stop has cleared
\* the flag since the thread was started.
MaxThreads == 2     \* loop threads started per service

NewThread == [pc |-> "test", stopped |-> FALSE]

Live(s) == {i \in DOMAIN services[s].threads : services[s].threads[i].pc /= "done"}

\* what the steps of the services leave alone
service_rest ==
    <<ledger_vars, thread_vars, peers, now, sent, last, pool_vars, storage_vars, shared_vars,
      callers, _peers_lock, _sync_lock, nodes>>

\* start_sync_service lines 618-619, start_mining_service lines 652-654,
\* start_auto_transfer_service lines 782-784: the flag is read and found False
\* (with the flag True the call returns False and changes nothing)
StartCheck(s) ==
    /\ ~services[s].active
    /\ Len(services[s].threads) + services[s].starting < MaxThreads
    /\ services' = [services EXCEPT ![s].starting = @ + 1]
    /\ UNCHANGED service_rest

\* start_sync_service lines 621-623, start_mining_service lines 656-658,
\* start_auto_transfer_service lines 786-788: the flag is set and the thread started
Spawned(sv) ==
    [sv EXCEPT !.active = TRUE, !.starting = @ - 1, !.threads = Append(@, NewThread)]

StartSpawn(s) ==
    /\ services[s].starting > 0
    /\ services' = [services EXCEPT ![s] = Spawned(@)]
    /\ UNCHANGED service_rest

\* stop_sync_service line 629, stop_mining_service lines 664-667,
\* stop_auto_transfer_service lines 794-797: the flag is cleared.  The mining and
\* auto-transfer services return False when the flag is not set.
StopService(s) ==
    /\ s /= "sync" => services[s].active
    /\ services' = [services EXCEPT
          ![s].active = FALSE,
          ![s].threads = [i \in DOMAIN @ |->
                             IF @[i].pc /= "done" THEN [@[i] EXCEPT !.stopped = TRUE]
                             ELSE @[i]]]
    /\ UNCHANGED service_rest

\* _sync_loop line 634, _mining_loop line 676, _auto_transfer_loop line 803: the
\* `while` test.  The thread ends when it reads the flag False.
LoopTest(s, i) ==
    /\ i \in DOMAIN services[s].threads
    /\ services[s].threads[i].pc = "test"
    /\ services' = [services EXCEPT ![s].threads[i].pc =
                       IF services[s].active THEN "iteration" ELSE "done"]
    /\ UNCHANGED service_rest

\* _sync_loop lines 635-636, _mining_loop lines 677-706, _auto_transfer_loop lines
\* 804-848: the calls of the iteration return, or raise into the loop's `except`
LoopWork(s, i) ==
    /\ i \in DOMAIN services[s].threads
    /\ services[s].threads[i].pc = "iteration"
    /\ services' = [services EXCEPT ![s].threads[i].pc = "sleep"]
    /\ UNCHANGED service_rest

\* _sync_loop lines 637-640, _mining_loop lines 708-712, _auto_transfer_loop lines
\* 850-854: time.sleep returns
LoopSleep(s, i) ==
    /\ i \in DOMAIN services[s].threads
    /\ services[s].threads[i].pc = "sleep"
    /\ services' = [services EXCEPT ![s].threads[i].pc = "test"]
    /\ UNCHANGED service_rest

\* ---------------------------------------------------------------- storage
\* storage/storage.py.  The files of one data directory, shared by the processes of
\* one machine: disk holds the content of blockchain.json and pending_tx.json (NoFile
\* while the file does not exist), versions the content of .versions.json (file key ->
\* version; the checksum and the timestamp of a record are never read by a save).
\* What runs inside `with self._file_lock()` is one step; reads and writes of the
\* files succeed.

BLOCKCHAIN_FILE == "blockchain.json"
PENDING_TX_FILE == "pending_tx.json"

\* Storage._get_version: DataVersion() has version 0
_get_version(V, file_key) == DictGet(V, file_key, 0)

\* Storage._check_version_match
_check_version_match(V, file_key, expected_version) ==
    [matches |-> expected_version = 0 \/ expected_version = _get_version(V, file_key),
     current |-> _get_version(V, file_key)]

\* an increment that starts over
_increment_version_from_scratch(V, file_key) == DictSet(V, file_key, 1)

\* Storage._increment_version: the version records after the call
_increment_version(V, file_key) == DictSet(V, file_key, DictGet(V, file_key, 0) + 1)

\* what a save returns, and the files after it
Saved(success, version, D, V) ==
    [success |-> success, version |-> version, disk |-> D, versions |-> V]

\* Storage.save_blockchain lines 363-385: the six fields of each block are written,
\* the version is incremented
WriteChain(D, V, chain_data) ==
    Saved(TRUE, _get_version(_increment_version(V, BLOCKCHAIN_FILE), BLOCKCHAIN_FILE),
          [D EXCEPT !.blockchain = FileOf(chain_data)], _increment_version(V, BLOCKCHAIN_FILE))

\* Storage.save_blockchain lines 339-358: an existing file is compared with the chain
SkipsWrite(existing_data, new_chain) ==
    \/ Len(new_chain) < Len(existing_data)
    \/ /\ Len(new_chain) = Len(existing_data)
       /\ existing_data /= <<>>
       /\ existing_data[Len(existing_data)].hash = new_chain[Len(new_chain)].hash

\* Storage.save_blockchain (max_retries >= 1: every path of the loop's first round returns)
save_blockchain(D, V, new_chain, force, expected_version) ==
    IF expected_version > 0
       /\ ~_check_version_match(V, BLOCKCHAIN_FILE, expected_version).matches
    THEN Saved(FALSE, _check_version_match(V, BLOCKCHAIN_FILE, expected_version).current, D, V)
    ELSE IF ~force /\ D.blockchain.exists /\ D.blockchain.readable
            /\ SkipsWrite(D.blockchain.data, new_chain)
    THEN Saved(TRUE, _get_version(V, BLOCKCHAIN_FILE), D, V)
    ELSE WriteChain(D, V, new_chain)

\* Storage.save_pending_transactions
save_pending_transactions(D, V, transactions, expected_version) ==
    IF expected_version > 0
       /\ ~_check_version_match(V, PENDING_TX_FILE, expected_version).matches
    THEN Saved(FALSE, _check_version_match(V, PENDING_TX_FILE, expected_version).current, D, V)
    ELSE Saved(TRUE, _get_version(_increment_version(V, PENDING_TX_FILE), PENDING_TX_FILE),
               [D EXCEPT !.pending_tx = FileOf(transactions)],
               _increment_version(V, PENDING_TX_FILE))

\* Storage.load_blockchain: (chain_data, version); None is found = FALSE
load_blockchain(D, V) ==
    IF ~D.blockchain.exists \/ ~D.blockchain.readable
    THEN [found |-> FALSE, data |-> <<>>, version |-> 0]
    ELSE [found |-> TRUE, data |-> D.blockchain.data,
          version |-> _get_version(V, BLOCKCHAIN_FILE)]

\* Storage.load_pending_transactions: (transactions, version)
load_pending_transactions(D, V) ==
    IF ~D.pending_tx.exists \/ ~D.pending_tx.readable
    THEN [data |-> <<>>, version |-> 0]
    ELSE [data |-> D.pending_tx.data, version |-> _get_version(V, PENDING_TX_FILE)]

SAVE_ALL_MAX_RETRIES == 5

\* Storage.save_all lines 824-829: our transactions that are not there yet are added
\* to those read back
MergePending(existing_tx, pending_tx) ==
    existing_tx \o SeqFilter(pending_tx, TxIdsOf(existing_tx))

SavedAll(ret, D, V) == [ret |-> ret, disk |-> D, versions |-> V]

RECURSIVE SaveAllRounds(_, _, _, _, _)
\* Storage.save_all lines 802-841: the rounds left of `for retry in range(max_retries)`
SaveAllRounds(D, V, new_chain, pending_tx, rounds) ==
    IF rounds = 0 THEN SavedAll(FALSE, D, V)
    ELSE LET c == save_blockchain(D, V, new_chain, FALSE, 0)
             t == save_pending_transactions(c.disk, c.versions, pending_tx, 0)
         IN IF ~c.success
               /\ ~(/\ load_blockchain(c.disk, c.versions).found
                    /\ load_blockchain(c.disk, c.versions).data /= <<>>
                    /\ Len(load_blockchain(c.disk, c.versions).data) >= Len(new_chain))
            THEN SaveAllRounds(c.disk, c.versions, new_chain, pending_tx, rounds - 1)
            ELSE IF ~t.success
            THEN SaveAllRounds(t.disk, t.versions, new_chain,
                               MergePending(load_pending_transactions(t.disk, t.versions).data,
                                            pending_tx),
                               rounds - 1)
            ELSE SavedAll(TRUE, t.disk, t.versions)

\* Storage.save_all
save_all(D, V, new_chain, pending_tx) ==
    SaveAllRounds(D, V, new_chain, pending_tx, SAVE_ALL_MAX_RETRIES)

\* The chains a process of the data directory saves: this node's chain, a part of it,
\* the chain of another process one block ahead of a part of it, or no block at all.
ChainsToSave ==
    {Prefix(chain, j) : j \in 0..Len(chain)} \cup
    {Extend(Prefix(chain, j), <<"honest">>, now) : j \in 1..Len(chain)}

\* the mempools saved: this node's, or another process's
MempoolsToSave == {pending_transactions, <<>>} \cup {<<tx>> : tx \in GossipTxs}

\* the version the caller says it read
ExpectedVersions == (0 - 1)..(MaxVersion + 1)

SaveDone(op, args, r) ==
    /\ disk' = r.disk
    /\ versions' = r.versions
    /\ last' = [op |-> op, args |-> args, ret |-> <<r.success, r.version>>]

SaveBlockchain ==
    /\ _get_version(versions, BLOCKCHAIN_FILE) < MaxVersion
    /\ \E new_chain \in ChainsToSave, force \in BOOLEAN, expected_version \in ExpectedVersions :
          SaveDone("save_blockchain", <<Len(new_chain), force, expected_version>>,
                   save_blockchain(disk, versions, new_chain, force, expected_version))
    /\ UNCHANGED <<ledger_vars, thread_vars, peers, now, sent, pool_vars, shared_vars, net_vars>>

SavePendingTransactions ==
    /\ _get_version(versions, PENDING_TX_FILE) < MaxVersion
    /\ \E transactions \in MempoolsToSave, expected_version \in ExpectedVersions :
          SaveDone("save_pending_transactions", <<Len(transactions), expected_version>>,
                   save_pending_transactions(disk, versions, transactions, expected_version))
    /\ UNCHANGED <<ledger_vars, thread_vars, peers, now, sent, pool_vars, shared_vars, net_vars>>

\* Node.save_state and the shutdown handlers: a process saves its chain and its mempool
SaveAll ==
    /\ _get_version(versions, BLOCKCHAIN_FILE) < MaxVersion
    /\ _get_version(versions, PENDING_TX_FILE) < MaxVersion
    /\ \E new_chain \in ChainsToSave \ {<<>>}, pending_tx \in MempoolsToSave :
          /\ disk' = save_all(disk, versions, new_chain, pending_tx).disk
          /\ versions' = save_all(disk, versions, new_chain, pending_tx).versions
          /\ last' = [op |-> "save_all", args |-> <<Len(new_chain), Len(pending_tx)>>,
                      ret |-> save_all(disk, versions, new_chain, pending_tx).ret]
    /\ UNCHANGED <<ledger_vars, thread_vars, peers, now, sent, pool_vars, shared_vars, net_vars>>

\* ----------------------------------------------------------------- start
\* A file that parses as JSON but holds no blocks or transactions: a list with one
\* object of other keys (its "hash", read with .get("hash", ""), is empty).
MalformedFile == FileOf(<<[garbage |-> TRUE, hash |-> <<>>]>>)

\* the node object Node.__init__ leaves, or the exception it raises
Started(c, p) == [started |-> TRUE, error |-> "", chain |-> c, pending |-> p]
StartFailed(error) == [started |-> FALSE, error |-> error, chain |-> <<>>, pending |-> <<>>]

\* Node.__init__ lines 57-71 with the chain and the mempool as the loads return them.
\* Blockchain.__init__ (blockchain.py line 24) takes no argument, so line 60,
\* Blockchain(chain_data=chain_data), raises TypeError.
NodeLoaded(chain_data, pending_tx) ==
    IF chain_data /= <<>> THEN StartFailed("TypeError")
    ELSE Started(<<GENESIS_BLOCK>>, pending_tx)

\* Node.__init__
NodeInit(D, V) == NodeLoaded(load_blockchain(D, V).data, load_pending_transactions(D, V).data)

start_rest == <<ledger_vars, thread_vars, peers, now, sent, pool_vars, shared_vars, net_vars>>

\* a file of the data directory is damaged: cut short so that it does not parse, or
\* overwritten with other JSON
DamageFile ==
    /\ \E f \in {CorruptFile, MalformedFile} :
          \/ disk' = [disk EXCEPT !.blockchain = f]
          \/ disk' = [disk EXCEPT !.pending_tx = f]
    /\ UNCHANGED <<versions, last, start_rest>>

\* a node process starts on the data directory (create_app, app.py line 129)
NodeStart ==
    /\ last' = [op |-> "Node.__init__", args |-> <<>>, ret |-> NodeInit(disk, versions)]
    /\ UNCHANGED <<disk, versions, start_rest>>

\* --------------------------------------------------------------- sessions
\* active_sessions.json (storage/storage.py lines 633-776): a JSON object from str(port)
\* to the wallet address of the node on that port.  str is one-to-one on port numbers,
\* so the port itself is the key here.  Every call reads the file, changes the dict and
\* writes it back inside one `with self._file_lock()`.

\* Storage.start_session without the search for the wallet on the other ports
start_session_port_only(S, port, address) ==
    IF port \in DOMAIN S
    THEN [success |-> FALSE, sessions |-> S]
    ELSE [success |-> TRUE, sessions |-> DictSet(S, port, address)]

\* Storage.start_session
start_session(S, port, address) ==
    IF port \in DOMAIN S
    THEN [success |-> FALSE, sessions |-> S]
    ELSE IF \E p \in DOMAIN S : S[p] = address
    THEN [success |-> FALSE, sessions |-> S]
    ELSE [success |-> TRUE, sessions |-> DictSet(S, port, address)]

\* Storage.end_session: sessions.pop(str(port))
end_session(S, port) ==
    IF port \in DOMAIN S
    THEN [success |-> TRUE, sessions |-> [p \in (DOMAIN S) \ {port} |-> S[p]]]
    ELSE [success |-> FALSE, sessions |-> S]

\* Storage._cleanup_stale_sessions: the sessions whose port nobody listens on go away
_cleanup_stale_sessions(S, listening) ==
    [p \in (DOMAIN S) \cap listening |-> S[p]]

SessionDone(op, args, r) ==
    /\ sessions' = r.sessions
    /\ last' = [op |-> op, args |-> args, ret |-> r.success]

\* what the session calls leave alone
session_rest ==
    <<ledger_vars, thread_vars, peers, now, sent, pool_vars, storage_vars, lockfile, procs,
      net_vars>>

\* Node.__init__ (node.py line 45): the node registers its wallet on its port
StartSession ==
    /\ \E port \in Ports, address \in WalletAddresses :
          SessionDone("start_session", <<port, address>>, start_session(sessions, port, address))
    /\ UNCHANGED session_rest

\* Node.end_session (node.py lines 230-238)
EndSession ==
    /\ \E port \in Ports :
          SessionDone("end_session", <<port>>, end_session(sessions, port))
    /\ UNCHANGED session_rest

\* Storage.__init__ (line 101) of a starting process; any set of ports may be listening
CleanupStaleSessions ==
    /\ \E listening \in SUBSET Ports :
          SessionDone("_cleanup_stale_sessions", <<listening>>,
                      [success |-> TRUE, sessions |-> _cleanup_stale_sessions(sessions, listening)])
    /\ UNCHANGED session_rest

\* the ports on which connect_ex(('127.0.0.1', port)) succeeds
Listening == {port \in Ports : nodes[port].pc \in {"listening", "ended"}}

\* what the steps of a node process leave alone
node_rest ==
    <<ledger_vars, thread_vars, peers, now, sent, pool_vars, storage_vars, lockfile, procs,
      callers, _peers_lock, _sync_lock, services>>

NodeStep(port, n) == nodes' = [nodes EXCEPT ![port] = n]

\* run_node.py -> create_app -> Node.__init__ line 39: Storage(port), whose
\* constructor sweeps the session table
NodeConstructStorage(port) ==
    /\ nodes[port].pc = "off"
    /\ \E address \in WalletAddresses : NodeStep(port, [pc |-> "storage", address |-> address])
    /\ SessionDone("_cleanup_stale_sessions", <<Listening>>,
                   [success |-> TRUE, sessions |-> _cleanup_stale_sessions(sessions, Listening)])
    /\ UNCHANGED node_rest

\* Node.__init__ lines 45-47: start_session, and RuntimeError when it fails
NodeStartSession(port) ==
    /\ nodes[port].pc = "storage"
    /\ LET r == start_session(sessions, port, nodes[port].address)
       IN /\ SessionDone("start_session", <<port, nodes[port].address>>, r)
          /\ NodeStep(port, IF r.success THEN [nodes[port] EXCEPT !.pc = "booting"] ELSE NodeOff)
    /\ UNCHANGED node_rest

\* the rest of Node.__init__ and create_app is done and app.run binds the port
NodeListen(port) ==
    /\ nodes[port].pc = "booting"
    /\ NodeStep(port, [nodes[port] EXCEPT !.pc = "listening"])
    /\ UNCHANGED <<sessions, last, node_rest>>

\* GET /wallets or GET /sessions on a running node: Storage() is constructed
NodeRequestSessions(port) ==
    /\ nodes[port].pc \in {"listening", "ended"}
    /\ SessionDone("_cleanup_stale_sessions", <<Listening>>,
                   [success |-> TRUE, sessions |-> _cleanup_stale_sessions(sessions, Listening)])
    /\ UNCHANGED <<nodes, node_rest>>

\* POST /shutdown: node.end_session()
NodeShutdown(port) ==
    /\ nodes[port].pc = "listening"
    /\ SessionDone("end_session", <<port>>, end_session(sessions, port))
    /\ NodeStep(port, [nodes[port] EXCEPT !.pc = "ended"])
    /\ UNCHANGED node_rest

\* the process ends: after /shutdown, or killed with its session in the table
NodeExit(port) ==
    /\ nodes[port].pc \in {"booting", "listening", "ended"}
    /\ NodeStep(port, NodeOff)
    /\ UNCHANGED <<sessions, last, node_rest>>

\* ------------------------------------------------- the Transaction object
\* transaction/transaction.py as an object: a number carries its Python type, for
\* float(amount) makes 5, 5.0 and "5" one value; a timestamp that is None or 0 is
\* falsy and written 0.
PyNumber(kind, value) == [kind |-> kind, value |-> value]

\* float(x)
ToFloat(x) == PyNumber("float", x.value)

\* Transaction.__init__ at time.time() = clock
Transaction(sender, receiver, amount, signature, tx_type, public_key, timestamp, clock) ==
    [sender |-> sender, receiver |-> receiver, amount |-> ToFloat(amount),
     signature |-> signature, tx_type |-> tx_type, public_key |-> public_key,
     timestamp |-> IF timestamp /= 0 THEN timestamp ELSE clock]

\* Transaction.hash_hex
hash_hex(tx) == TxHash(tx.sender, tx.receiver, tx.amount, tx.timestamp)

\* Transaction.to_dict
to_dict(tx) ==
    [sender |-> tx.sender, receiver |-> tx.receiver, amount |-> tx.amount,
     signature |-> tx.signature, tx_type |-> tx.tx_type, public_key |-> tx.public_key,
     timestamp |-> tx.timestamp, tx_id |-> hash_hex(tx)]

\* Transaction.from_dict that does not hand the timestamp on
from_dict_without_timestamp(data, clock) ==
    Transaction(data.sender, data.receiver, data.amount, data.signature, data.tx_type,
                data.public_key, 0, clock)

\* Transaction.from_dict at time.time() = clock
from_dict(data, clock) ==
    Transaction(data.sender, data.receiver, data.amount, data.signature, data.tx_type,
                data.public_key, data.timestamp, clock)

AmountInputs == {PyNumber("int", 5), PyNumber("float", 5), PyNumber("str", 5), PyNumber("int", 0)}
TimestampInputs == {0, 1, 2}
TxTypes == {TT_COINBASE, TT_TRANSFER, TT_AUTO_TRANSFER}

tx_rest == <<ledger_vars, thread_vars, peers, sent, pool_vars, storage_vars, shared_vars, net_vars>>

\* a transaction is built, possibly signed, and serialised
NewTransaction ==
    /\ \E sender \in {MyAddress, COINBASE_ADDRESS}, receiver \in {MyAddress, OtherAddress},
          amount \in AmountInputs, public_key \in {"", "pkA"},
          tx_type \in TxTypes, timestamp \in TimestampInputs :
          last' = [op |-> "to_dict", args |-> <<timestamp>>,
                   ret |-> to_dict(Transaction(sender, receiver, amount,
                                               IF public_key = "" THEN NoSignature
                                               ELSE WalletSign(public_key, <<>>),
                                               tx_type, public_key, timestamp, now))]
    /\ UNCHANGED <<now, tx_rest>>

\* the dict is read back, now or later
ReadTransaction ==
    /\ last.op = "to_dict"
    /\ last' = [op |-> "from_dict", args |-> last.ret, ret |-> from_dict(last.ret, now)]
    /\ UNCHANGED <<now, tx_rest>>

\* time.time() moves on
ClockTick ==
    /\ now <= MaxApiTime
    /\ now' = now + 1
    /\ UNCHANGED <<last, tx_rest>>

\* -------------------------------------------------------------- file lock
\* Storage._file_lock (storage/storage.py lines 108-164) taken by the processes of one
\* data directory, each inside a save_blockchain(chain) without force and without
\* expected_version.  Time is counted in sleeps of retry_delay (0.1 s); the threads of
\* one process are serialised by Storage._thread_lock and appear as one.

LOCK_MAX_RETRIES == 50
STALE_SECONDS == 30
SLEEPS_PER_SECOND == 10
StaleAge == STALE_SECONDS * SLEEPS_PER_SECOND

\* the chains the processes save: one and two blocks after the genesis block
SharedChains ==
    {Extend(<<GENESIS_BLOCK>>, <<"honest">>, 1),
     Extend(<<GENESIS_BLOCK>>, <<"honest", "honest">>, 1)}

\* what the storage processes leave alone
lock_rest ==
    <<ledger_vars, thread_vars, peers, now, sent, last, pool_vars, sessions, net_vars>>

ProcStep(p, q) == procs' = [procs EXCEPT ![p] = q]

\* save_blockchain is called; `with self._file_lock()` begins
LockEnter(p) ==
    /\ procs[p].pc = "idle"
    /\ _get_version(versions, BLOCKCHAIN_FILE) < MaxVersion
    /\ \E new_chain \in SharedChains :
          ProcStep(p, [IdleProc EXCEPT !.pc = "acquire", !.new_chain = new_chain])
    /\ UNCHANGED <<lockfile, disk, versions, lock_rest>>

\* lines 120-126: os.open(lock_path, O_CREAT | O_EXCL) succeeds
LockCreate(p) ==
    /\ procs[p].pc = "acquire"
    /\ procs[p].attempt < LOCK_MAX_RETRIES
    /\ ~lockfile.exists
    /\ lockfile' = [exists |-> TRUE, pid |-> p, age |-> 0]
    /\ ProcStep(p, [procs[p] EXCEPT !.pc = "check", !.lock_acquired = TRUE])
    /\ UNCHANGED <<disk, versions, lock_rest>>

\* lines 127-134: the marker exists and is older than 30 s: it is removed, the loop
\* goes on at once
LockRemoveStale(p) ==
    /\ procs[p].pc = "acquire"
    /\ procs[p].attempt < LOCK_MAX_RETRIES
    /\ lockfile.exists
    /\ lockfile.age > StaleAge
    /\ lockfile' = NoLock
    /\ ProcStep(p, [procs[p] EXCEPT !.attempt = @ + 1])
    /\ UNCHANGED <<disk, versions, lock_rest>>

\* lines 127-139: the marker exists and is not stale: time.sleep(retry_delay)
LockWait(p) ==
    /\ procs[p].pc = "acquire"
    /\ procs[p].attempt < LOCK_MAX_RETRIES
    /\ lockfile.exists
    /\ lockfile.age <= StaleAge
    /\ ProcStep(p, [procs[p] EXCEPT !.pc = "sleep", !.attempt = @ + 1])
    /\ UNCHANGED <<lockfile, disk, versions, lock_rest>>

\* retry_delay passes: the sleepers wake up, the marker is 0.1 s older
LockTick ==
    /\ \E p \in Procs : procs[p].pc = "sleep"
    /\ procs' = [p \in Procs |-> IF procs[p].pc = "sleep"
                                  THEN [procs[p] EXCEPT !.pc = "acquire"] ELSE procs[p]]
    /\ lockfile' = IF lockfile.exists /\ lockfile.age <= StaleAge
                   THEN [lockfile EXCEPT !.age = @ + 1] ELSE lockfile
    /\ UNCHANGED <<disk, versions, lock_rest>>

\* the holder of the marker does not move for more than 30 s
LockStall ==
    /\ lockfile.exists
    /\ lockfile.age <= StaleAge
    /\ \A p \in Procs : procs[p].pc /= "sleep"
    /\ lockfile' = [lockfile EXCEPT !.age = StaleAge + 1]
    /\ UNCHANGED <<procs, disk, versions, lock_rest>>

\* a process that gives up after max_retries attempts instead of forcing the lock
LockForce_giving_up(p) ==
    /\ procs[p].pc = "acquire"
    /\ procs[p].attempt = LOCK_MAX_RETRIES
    /\ ProcStep(p, IdleProc)
    /\ UNCHANGED <<lockfile, disk, versions, lock_rest>>

\* lines 143-152: after max_retries attempts the marker is removed whatever its age
\* and created anew
LockForce(p) ==
    /\ procs[p].pc = "acquire"
    /\ procs[p].attempt = LOCK_MAX_RETRIES
    /\ lockfile' = [exists |-> TRUE, pid |-> p, age |-> 0]
    /\ ProcStep(p, [procs[p] EXCEPT !.pc = "check", !.lock_acquired = TRUE])
    /\ UNCHANGED <<disk, versions, lock_rest>>

\* save_blockchain lines 338-358 inside the lock: the file is read and compared
LockedCheck(p) ==
    /\ procs[p].pc = "check"
    /\ ProcStep(p, [procs[p] EXCEPT !.pc =
              IF disk.blockchain.exists /\ disk.blockchain.readable
                 /\ SkipsWrite(disk.blockchain.data, procs[p].new_chain)
              THEN "release" ELSE "write"])
    /\ UNCHANGED <<lockfile, disk, versions, lock_rest>>

\* save_blockchain lines 378-385 inside the lock: the file and its version are written
LockedWrite(p) ==
    /\ procs[p].pc = "write"
    /\ disk' = WriteChain(disk, versions, procs[p].new_chain).disk
    /\ versions' = WriteChain(disk, versions, procs[p].new_chain).versions
    /\ ProcStep(p, [procs[p] EXCEPT !.pc = "release"])
    /\ UNCHANGED <<lockfile, lock_rest>>

\* lines 157-163: the marker file is deleted, whoever created it
LockRelease(p) ==
    /\ procs[p].pc = "release"
    /\ lockfile' = IF procs[p].lock_acquired THEN NoLock ELSE lockfile
    /\ ProcStep(p, IdleProc)
    /\ UNCHANGED <<disk, versions, lock_rest>>

\* The process dies inside `with self._file_lock()`: the `finally` of lines 157-163
\* does not run and the marker file stays.
LockCrash(p) ==
    /\ procs[p].pc \in {"check", "write", "release"}
    /\ procs[p].lock_acquired
    /\ lockfile.exists
    /\ lockfile.pid = p
    /\ \A q \in Procs : procs[q].pc /= "dead"
    /\ ProcStep(p, [procs[p] EXCEPT !.pc = "dead"])
    /\ UNCHANGED <<lockfile, disk, versions, lock_rest>>

\* save_blockchain is called by a process while no other process is inside a save
LockEnterAlone(p) ==
    /\ \A q \in Procs \ {p} : procs[q].pc \in {"idle", "dead"}
    /\ LockEnter(p)

\* one pass of the acquisition loop of process p, or its last resort
LockTry(p) ==
    \/ LockCreate(p)
    \/ LockRemoveStale(p)
    \/ LockWait(p)
    \/ LockForce(p)

\* ------------------------------------------------------------------- specs
\* The node with its threads: two miners, a reader of the caches, the resolver, and
\* the peers' blocks and chains.
Next ==
    \/ \E m \in Miners : MineStart(m)
    \/ \E m \in Miners : MineAppend(m)
    \/ \E m \in Miners : MineInvalidate(m)
    \/ ReadStart
    \/ ReadStore
    \/ ResolveStart
    \/ ResolveFetch
    \/ ResolveReplace
    \/ ResolveInvalidate
    \/ ReceiveBlock
    \/ AddPeer

Spec == Init /\ [][Next]_vars

\* The calls of the Ledger and the transaction handlers, one at a time.
ApiNext ==
    \/ MineBlock
    \/ AddBlock
    \/ ReplaceChain
    \/ ValidateTransaction
    \/ CleanupPending
    \/ ReceiveTransaction
    \/ CreateTransfer
    \/ CreateTransaction

ApiSpec == Init /\ [][ApiNext]_vars

\* Consensus and mempool, one call at a time: transactions arrive, blocks are mined,
\* peers are registered and asked for their chains.
SyncNext ==
    \/ AddPeer
    \/ ReceiveTransaction
    \/ MineBlock
    \/ CleanupPending
    \/ ResolveConflicts

SyncSpec == Init /\ [][SyncNext]_vars

\* Persistence: the node mines, and the processes of its data directory save chains
\* and mempools.
StorageNext ==
    \/ MineBlock
    \/ SaveBlockchain
    \/ SavePendingTransactions
    \/ SaveAll

StorageSpec == Init /\ [][StorageNext]_vars

\* Blocks of peers, one call at a time: peers are registered, transactions arrive,
\* blocks are mined and received.
BlockNext ==
    \/ AddPeer
    \/ ReceiveTransaction
    \/ MineBlock
    \/ ReceiveBlockCall

BlockSpec == Init /\ [][BlockNext]_vars

\* Transaction objects written to dicts and read back.
TxNext ==
    \/ NewTransaction
    \/ ReadTransaction
    \/ ClockTick

TxSpec == Init /\ [][TxNext]_vars

\* Start-up: the node mines, processes save their state, files get damaged, and a
\* node starts on what is on disk.
StartNext ==
    \/ MineBlock
    \/ SaveAll
    \/ DamageFile
    \/ NodeStart

StartSpec == Init /\ [][StartNext]_vars

\* Gossip from peers that choose the tx_id they send.
GossipNext ==
    \/ MineBlock
    \/ ReceiveTransaction
    \/ ReceiveForged

GossipSpec == Init /\ [][GossipNext]_vars

\* Admissions beside a cleanup: a request thread inside receive_transaction, the sync
\* thread inside _sync_pending_transactions, a thread inside
\* cleanup_pending_transactions, and blocks mined in between.
RaceNext ==
    \/ MineBlock
    \/ AddPeer
    \/ ReceiveDecide
    \/ ReceiveAppend
    \/ PullStart
    \/ PullFetch
    \/ PullAppend
    \/ PullDone
    \/ CleanupFilter
    \/ CleanupAssign

RaceSpec == Init /\ [][RaceNext]_vars

\* The peer set, one call at a time.
PeerNext ==
    \/ AddPeerCall
    \/ RemovePeer
    \/ DiscoverPeers

PeerSpec == Init /\ [][PeerNext]_vars

\* The session table, one call at a time.
SessionNext ==
    \/ StartSession
    \/ EndSession
    \/ CleanupStaleSessions

SessionSpec == Init /\ [][SessionNext]_vars

\* The processes of one data directory, each saving its chain under the file lock.
LockNext ==
    \/ \E p \in Procs : LockEnter(p)
    \/ \E p \in Procs : LockCreate(p)
    \/ \E p \in Procs : LockRemoveStale(p)
    \/ \E p \in Procs : LockWait(p)
    \/ LockTick
    \/ LockStall
    \/ \E p \in Procs : LockForce(p)
    \/ \E p \in Procs : LockedCheck(p)
    \/ \E p \in Procs : LockedWrite(p)
    \/ \E p \in Procs : LockRelease(p)

LockSpec == Init /\ [][LockNext]_vars

\* The mempool with its threads: a request thread inside receive_transaction, the
\* sync thread inside _sync_pending_transactions, and blocks mined in between.
PoolNext ==
    \/ MineBlock
    \/ AddPeer
    \/ ReceiveDecide
    \/ ReceiveAppend
    \/ PullStart
    \/ PullFetch
    \/ PullAppend
    \/ PullDone

PoolSpec == Init /\ [][PoolNext]_vars

\* Block numbering, one call at a time: peers are registered, blocks are mined and
\* received, and peers are asked for their chains.
IndexNext ==
    \/ AddPeer
    \/ MineBlock
    \/ ReceiveBlockCall
    \/ ResolveConflicts
    \/ ResolveMisnumbered

IndexSpec == Init /\ [][IndexNext]_vars

\* The threads that send requests to the peers, with the locks of the node.
NetNext ==
    \/ AddPeerPropagate
    \/ \E c \in Operations : CallEnter(c)
    \/ \E c \in Operations : CallLockPeers(c)
    \/ \E c \in Operations : CallCopyPeers(c)
    \/ \E c \in Operations : CallPrepare(c)
    \/ \E c \in Operations : CallRequest(c)
    \/ \E c \in Operations : CallResponse(c)
    \/ \E c \in Operations : CallLoopDone(c)
    \/ \E c \in Operations : CallLockLedger(c)
    \/ \E c \in Operations : CallInvalidate(c)
    \/ \E c \in Operations : CallLockFound(c)
    \/ \E c \in Operations : CallAddFound(c)
    \/ \E c \in Operations : CallAnnounce(c)
    \/ \E c \in Operations : CallAnnounced(c)
    \/ \E c \in Operations : CallAnnounceDone(c)

NetSpec == Init /\ [][NetNext]_vars

\* Consensus with peers that fail: peers are registered, blocks are mined, and
\* resolve_conflicts asks the peers.
FaultNext ==
    \/ AddPeerCall
    \/ MineBlock
    \/ ResolveAnswered

FaultSpec == Init /\ [][FaultNext]_vars

\* The background services: calls of start and stop, and the loop threads.
ServiceNext ==
    \/ \E s \in Services : StartCheck(s)
    \/ \E s \in Services : StartSpawn(s)
    \/ \E s \in Services : StopService(s)
    \/ \E s \in Services, i \in 1..MaxThreads : LoopTest(s, i)
    \/ \E s \in Services, i \in 1..MaxThreads : LoopWork(s, i)
    \/ \E s \in Services, i \in 1..MaxThreads : LoopSleep(s, i)

ServiceSpec == Init /\ [][ServiceNext]_vars

\* The processes of one data directory saving in turn, until one of them dies inside
\* the lock and the other saves after it.  A process that is inside _file_lock goes
\* on running, and retry_delay passes.
CrashNext ==
    \/ \E p \in Procs : LockEnterAlone(p)
    \/ \E p \in Procs : LockCreate(p)
    \/ \E p \in Procs : LockRemoveStale(p)
    \/ \E p \in Procs : LockWait(p)
    \/ LockTick
    \/ LockStall
    \/ \E p \in Procs : LockForce(p)
    \/ \E p \in Procs : LockedCheck(p)
    \/ \E p \in Procs : LockedWrite(p)
    \/ \E p \in Procs : LockRelease(p)
    \/ \E p \in Procs : LockCrash(p)

CrashSpec ==
    /\ Init /\ [][CrashNext]_vars
    /\ \A p \in Procs : WF_vars(LockTry(p))
    /\ WF_vars(LockTick)

\* Spending: transfers arrive from peers and this node mines them, one per block.
SpendNext ==
    \/ SpendReceive
    \/ SpendMine

SpendSpec == Init /\ [][SpendNext]_vars

\* Block contents, one call at a time: blocks are mined, received from peers and
\* adopted with the chains of peers.
CoinNext ==
    \/ AddPeer
    \/ MineBlock
    \/ ReceiveBlockCall
    \/ ResolveConflicts
    \/ ReceiveMiscoined
    \/ ResolveMiscoined

CoinSpec == Init /\ [][CoinNext]_vars

\* The node processes of one machine: they start, serve, end their sessions and exit
\* or are killed.
BootNext ==
    \/ \E port \in Ports : NodeConstructStorage(port)
    \/ \E port \in Ports : NodeStartSession(port)
    \/ \E port \in Ports : NodeListen(port)
    \/ \E port \in Ports : NodeRequestSessions(port)
    \/ \E port \in Ports : NodeShutdown(port)
    \/ \E port \in Ports : NodeExit(port)

BootSpec == Init /\ [][BootNext]_vars

\* ------------------------------------------------------------------ claims
\* C1: in every reachable state chain[0] is the fixed genesis block, and every later
\* block carries its predecessor's hash as previous_hash and the hash of its own fields.
C1_ChainIntegrity ==
    /\ chain[1] = GENESIS_BLOCK
    /\ \A i \in 2..Len(chain) :
          /\ chain[i].previous_hash = chain[i-1].hash
          /\ chain[i].hash = calculate_hash(chain[i])

\* C2: in every reachable state the hash of every non-genesis block of the chain starts
\* with `difficulty` zero characters, blocks adopted by resolve_conflicts included.
C2_ProofOfWork ==
    \A i \in 2..Len(chain) : MeetsDifficulty(chain[i].hash)

\* C3: a step that changes the chain leaves it strictly longer (a block appended, or a
\* longer chain installed); the chain's length never decreases.
C3_ChainOnlyGrows ==
    [][chain' /= chain => Len(chain') > Len(chain)]_vars

\* C4: when a run of resolve_conflicts in which every answering peer sent a fully valid
\* chain comes to its decision, it installs a chain of the greatest length offered and
\* goes on to return True if that length exceeds the length of the node's chain;
\* otherwise it leaves the chain as it is and returns False.
C4_LongestChainRule ==
    [][(resolver.pc = "fetch" /\ resolver.todo = {} /\ resolver'.pc /= "fetch"
           /\ resolver.all_valid)
       => IF resolver.best_len > Len(chain)
          THEN resolver'.pc = "replaced" /\ Len(chain') = resolver.best_len
          ELSE resolver'.pc = "idle" /\ chain' = chain]_vars

\* C5: when the two mining threads have both appended their block, the two blocks have
\* different indices and one of them carries the other's hash as previous_hash.
C5_ConcurrentMiners ==
    \A m1 \in Miners, m2 \in Miners :
        (m1 /= m2 /\ miner[m1].pc = "appended" /\ miner[m2].pc = "appended")
        => /\ miner[m1].block.index /= miner[m2].block.index
           /\ \/ miner[m1].block.previous_hash = miner[m2].block.hash
              \/ miner[m2].block.previous_hash = miner[m1].block.hash

\* C6: in every reachable state in which the cache is not empty and
\* _cache_chain_length equals len(chain), the cached balances and mined ids are those of
\* a full scan of the chain.
C6_CacheCoherence ==
    ((DOMAIN _balance_cache /= {} \/ _mined_tx_cache /= {})
        /\ _cache_chain_length = Len(chain))
    => /\ _balance_cache = ScanChain(chain).balances
       /\ _mined_tx_cache = ScanChain(chain).mined_tx_ids

\* the three conditions of C7 on a block offered to add_block
BlockAcceptable(block) ==
    /\ block.previous_hash = get_latest_block(chain).hash
    /\ block.hash = calculate_hash(block)
    /\ MeetsDifficulty(block.hash)

AddBlockAnswers(block, r) ==
    /\ r.ret <=> BlockAcceptable(block)
    /\ r.ret => r.ledger.chain = Append(chain, block)
    /\ ~r.ret => r.ledger = Ledger

\* C7: in every reachable state and for every block offered, add_block returns True
\* and appends the block iff the block's previous_hash is the latest block's hash, its
\* hash is the hash of its fields and meets the difficulty; otherwise it returns False
\* and the chain, the mempool and the caches are as before.
C7_AddBlockContract ==
    \A block \in IncomingBlocks : AddBlockAnswers(block, add_block(Ledger, block))

\* a peer's block has been appended by add_block
C7_Witness ==
    /\ last.op = "add_block"
    /\ last.ret = TRUE
    /\ get_latest_block(chain).data[1].receiver = OtherAddress

ReplaceChainAnswers(new_chain, r) ==
    /\ r.ret <=> (Len(new_chain) > Len(chain) /\ FullyValid(new_chain))
    /\ r.ret => r.ledger.chain = new_chain
    /\ ~r.ret => r.ledger.chain = chain

\* C8: in every reachable state and for every chain offered, replace_chain returns True
\* and installs the chain iff it is strictly longer than the current chain, starts with
\* the genesis block, and every block links to its predecessor, carries the hash of its
\* fields and (genesis excepted) meets the difficulty; otherwise it returns False and
\* the chain is as before.
C8_ReplaceChainContract ==
    \A resp \in PeerResponses :
        resp.status = 200 => ReplaceChainAnswers(resp.chain, replace_chain(Ledger, resp.chain))

\* The first failing check of C9's list for a transaction, read off the chain and the
\* mempool; "" when no check fails.
FirstFailingCheck(tx) ==
    IF tx.tx_id /= NoTxId /\ tx.tx_id \in TxIdsOf(ChainTxs(chain)) THEN ERR_MINED
    ELSE IF tx.tx_id /= NoTxId /\ tx.tx_id \in TxIdsOf(pending_transactions) THEN ERR_PENDING
    ELSE IF is_coinbase(tx) THEN ERR_COINBASE
    ELSE IF tx.amount <= 0 THEN ERR_AMOUNT
    ELSE IF tx.sender = tx.receiver THEN ERR_SELF
    ELSE IF DictGet(ScanChain(chain).balances, tx.sender, 0) < tx.amount THEN ERR_BALANCE
    ELSE IF ~is_valid(tx) THEN ERR_SIGNATURE
    ELSE ""

Reports(v, reason) ==
    /\ v.error = reason
    /\ v.ok <=> reason = ""

\* C9: in every reachable state and for every transaction, validate_transaction with
\* check_chain = True reports the reason of the first failing check in the order mined,
\* pending, coinbase, amount, self-transfer, balance, signature, and succeeds iff no
\* check fails.
C9_FirstFailingCheck ==
    \A tx \in TxInputs : Reports(validate_transaction(Ledger, tx, TRUE), FirstFailingCheck(tx))

\* validate_transaction has gone through the six checks before and reported the last
C9_Witness ==
    /\ last.op = "validate_transaction"
    /\ last.ret = <<TRUE, FALSE, ERR_SIGNATURE>>

Untouched(led, snt) ==
    /\ led.chain = chain
    /\ led.pending = pending_transactions
    /\ snt = sent

RejectedTransaction(data, r) ==
    (data.sender /= MyAddress /\ r.status = 400) => Untouched(r.ledger, r.sent)

RejectedTransfer(r) == ~r.ret => Untouched(r.ledger, r.sent)

\* C10: in every reachable state, a POST /transaction of an external sender that is
\* answered 400 and a create_transfer that returns False leave the chain and the
\* mempool as they are and hand nothing to _broadcast_transaction.
C10_RejectionLeavesNoTrace ==
    /\ \A data \in TransactionRequests :
          RejectedTransaction(data, create_transaction(Ledger, sent, data, now))
    /\ \A receiver \in {MyAddress, OtherAddress}, amount \in Amounts,
          tx_type \in {TT_TRANSFER, TT_AUTO_TRANSFER} :
          RejectedTransfer(create_transfer(Ledger, sent, receiver, amount, tx_type, now))

\* POST /transaction of a funded external sender has been rejected by
\* validate_transaction, with a transaction waiting in the mempool
C10_Witness ==
    /\ last.op = "create_transaction"
    /\ last.ret = <<400, ERR_SIGNATURE>>
    /\ pending_transactions /= <<>>

\* C11: in every reachable state no two entries of the mempool carry the same tx_id,
\* with receive_transaction and the sync thread's mempool pull running concurrently.
C11_MempoolUniqueIds ==
    \A i \in 1..Len(pending_transactions), j \in 1..Len(pending_transactions) :
        i /= j => pending_transactions[i].tx_id /= pending_transactions[j].tx_id

AnsweredAlreadyMined(r) ==
    /\ r.status = 200
    /\ r.message = "Transaction already mined"
    /\ r.ledger.pending = pending_transactions

\* C12: in every reachable state, a receive_transaction whose tx_id is the tx_id of a
\* transaction in a block of the chain is answered 200 "Transaction already mined" and
\* leaves the mempool as it is.
C12_AlreadyMinedIgnored ==
    \A tx \in TxInputs :
        (tx.tx_id /= NoTxId /\ tx.tx_id \in TxIdsOf(ChainTxs(chain)))
        => AnsweredAlreadyMined(receive_transaction(Ledger, tx))

\* a transaction of a mined block has come in again and was answered "already mined"
C12_Witness ==
    /\ last.op = "receive_transaction"
    /\ last.ret = <<200, "Transaction already mined">>
    /\ Len(chain) > 1

AdmittedOnlyIfValid(r, v) ==
    r.ledger.pending /= pending_transactions => v.ok

\* C13: in every reachable state and for every transaction a peer sends, of any
\* tx_type, receive_transaction appends it to the mempool only if
\* validate_transaction accepts it.
C13_TrustButVerify ==
    \A tx \in TxInputs :
        AdmittedOnlyIfValid(receive_transaction(Ledger, tx),
                            validate_transaction(Ledger, tx, TRUE))

\* ---------------------------------------------------------------------------------
\* Balances
\* ---------------------------------------------------------------------------------

\* an address no transaction names
UnknownAddress == "addr_unknown"

BalanceAddresses == {MyAddress, OtherAddress, COINBASE_ADDRESS, UnknownAddress}

\* the i-th transaction of txs is the first of its tx_id
FirstOccurrence(txs, i) ==
    txs[i].tx_id = NoTxId \/ \A j \in 1..(i - 1) : txs[j].tx_id /= txs[i].tx_id

RECURSIVE SumAmounts(_, _)
\* the sum of the amounts of the transactions of txs at the positions of the set idx
SumAmounts(txs, idx) ==
    IF idx = {} THEN 0
    ELSE LET i == CHOOSE x \in idx : TRUE
         IN txs[i].amount + SumAmounts(txs, idx \ {i})

SumReceived(txs, a) ==
    SumAmounts(txs, {i \in 1..Len(txs) : FirstOccurrence(txs, i) /\ txs[i].receiver = a})

SumSent(txs, a) ==
    IF a = COINBASE_ADDRESS THEN 0
    ELSE SumAmounts(txs, {i \in 1..Len(txs) : FirstOccurrence(txs, i) /\ txs[i].sender = a})

Named(txs, a) == \E i \in 1..Len(txs) : txs[i].sender = a \/ txs[i].receiver = a

BalanceIs(balance, txs, a) ==
    /\ balance = SumReceived(txs, a) - SumSent(txs, a)
    /\ ~Named(txs, a) => balance = 0
    /\ chain = <<GENESIS_BLOCK>> => balance = 0
    /\ (/\ a = MyAddress
        /\ last.op = "mine_block"
        /\ Len(chain) = 2
        /\ Len(chain[2].data) = 1) => balance = MINING_REWARD

\* C14: get_balance(address) is the sum of the amounts the address received minus the
\* sum of the amounts it sent over the chain's transactions, each tx_id counted at its
\* first occurrence only and nothing subtracted for the coinbase address; it is 0 for
\* an address no transaction names and for every address on a fresh node, and it is
\* MINING_REWARD for the miner after one mine_block on a fresh node (chain length 2).
C14_BalanceFormula ==
    \A a \in BalanceAddresses : BalanceIs(get_balance(Ledger, a), ChainTxs(chain), a)

Repeats(txs) ==
    \E i \in 1..Len(txs), j \in 1..Len(txs) :
        i < j /\ txs[i].tx_id /= NoTxId /\ txs[i].tx_id = txs[j].tx_id

\* a chain that holds a transaction twice, which the balances count once
C14_Witness ==
    /\ Repeats(ChainTxs(chain))
    /\ get_balance(Ledger, MyAddress) > MINING_REWARD

RECURSIVE SumValues(_, _)
\* the sum of the values of a dict over the keys of the set ks
SumValues(d, ks) ==
    IF ks = {} THEN 0
    ELSE LET k == CHOOSE x \in ks : TRUE
         IN d[k] + SumValues(d, ks \ {k})

OnlyCoinbaseAndTransfer(txs) ==
    \A i \in 1..Len(txs) : txs[i].tx_type \in {TT_COINBASE, TT_TRANSFER}

Conserved(balances) ==
    SumValues(balances, DOMAIN balances) = MINING_REWARD * (Len(chain) - 1)

\* C15: whenever the chain holds only coinbase and transfer transactions, the balances
\* returned by get_all_balances add up to MINING_REWARD times the number of blocks
\* after block 0.
C15_Conservation ==
    OnlyCoinbaseAndTransfer(ChainTxs(chain)) => Conserved(get_all_balances(Ledger))

\* ---------------------------------------------------------------------------------
\* Mining
\* ---------------------------------------------------------------------------------

Min(a, b) == IF a <= b THEN a ELSE b

\* the entries of the mempool whose tx_id is in no block of the chain, in mempool order
Unmined ==
    SelectSeq(pending_transactions, LAMBDA tx : tx.tx_id \notin TxIdsOf(ChainTxs(chain)))

IsReward(tx, miner_address) ==
    /\ tx.sender = COINBASE_ADDRESS
    /\ tx.receiver = miner_address
    /\ tx.amount = MINING_REWARD
    /\ tx.tx_type = TT_COINBASE

\* block is the one block mine_block is to append for miner_address: n transactions
\* of the sequence unmined after the coinbase transaction
BlockAsClaimed(block, unmined, n, miner_address) ==
    /\ block.index = Len(chain)
    /\ block.previous_hash = chain[Len(chain)].hash
    /\ Len(block.data) = n + 1
    /\ IsReward(block.data[1], miner_address)
    /\ \A i \in 1..n : block.data[i + 1] = unmined[i]

\* pending is what is left of unmined when its first n entries are taken away
MempoolAsClaimed(pending, unmined, n) ==
    /\ pending = SelectSeq(SubSeq(unmined, n + 1, Len(unmined)),
                           LAMBDA tx : \A i \in 1..n : tx.tx_id /= unmined[i].tx_id)
    /\ \A i \in 1..Len(pending), j \in 1..n : pending[i].tx_id /= unmined[j].tx_id

MinesAsClaimed(r, unmined, miner_address) ==
    /\ r.ledger.chain = Append(chain, r.block)
    /\ BlockAsClaimed(r.block, unmined, Min(Len(unmined), MAX_TRANSACTIONS_PER_BLOCK),
                      miner_address)
    /\ MempoolAsClaimed(r.ledger.pending, unmined,
                        Min(Len(unmined), MAX_TRANSACTIONS_PER_BLOCK))

Purged(pending, txs) == \A i \in 1..Len(pending) : pending[i].tx_id \notin TxIdsOf(txs)

ReadsFrom(L, txs) ==
    /\ \A a \in BalanceAddresses : get_balance(L, a) = SumReceived(txs, a) - SumSent(txs, a)
    /\ \A tx_id \in TxIdsOf(txs) \cup {tx.tx_id : tx \in TxInputs} :
           is_transaction_mined(L, tx_id) <=> tx_id \in TxIdsOf(txs)

ReplacedAsClaimed(r) ==
    r.ret => /\ Purged(r.ledger.pending, ChainTxs(r.ledger.chain))
             /\ ReadsFrom(r.ledger, ChainTxs(r.ledger.chain))

\* C17: when resolve_conflicts has replaced the chain, the mempool holds no transaction
\* whose tx_id is in a block of the new chain, and get_balance and is_transaction_mined
\* answer from the new chain.
C17_ReplacementPurgesMempool ==
    \A responses \in ResponseLists(Cardinality(peers)) :
        ReplacedAsClaimed(resolve_conflicts(Ledger, responses))

\* the chain was replaced by one whose last block carries a transaction, which the
\* mempool held when the peer was asked and holds no more
C17_Witness ==
    /\ last.op = "resolve_conflicts"
    /\ last.ret
    /\ Len(chain[Len(chain)].data) = 2
    /\ chain[Len(chain)].data[1].receiver = OtherAddress
    /\ ~Repeats(ChainTxs(chain))
    /\ Purged(pending_transactions, ChainTxs(chain))

\* ---------------------------------------------------------------------------------
\* Mempool cleanup
\* ---------------------------------------------------------------------------------

\* r is the outcome of a cleanup of the present mempool
CleansExactly(r) ==
    /\ r.ledger.pending = Unmined
    /\ r.removed = Cardinality({i \in 1..Len(pending_transactions) :
                                   pending_transactions[i].tx_id \in TxIdsOf(ChainTxs(chain))})
    /\ r.ledger.chain = chain

\* r2 is the outcome of a cleanup that follows the cleanup of outcome r
SecondCleansNothing(r, r2) ==
    /\ r2.removed = 0
    /\ r2.ledger.pending = r.ledger.pending

\* C18: cleanup_pending_transactions removes from the mempool exactly the entries whose
\* tx_id is in a block of the chain and returns their number; a second call right
\* after it removes nothing and returns 0.
C18_CleanupExactIdempotent ==
    /\ CleansExactly(cleanup_pending_transactions(Ledger))
    /\ SecondCleansNothing(cleanup_pending_transactions(Ledger),
                           cleanup_pending_transactions(
                               cleanup_pending_transactions(Ledger).ledger))

\* a cleanup that removed a mined entry and kept an entry not mined
C18_Witness ==
    /\ last.op = "cleanup_pending_transactions"
    /\ last.ret > 0
    /\ pending_transactions /= <<>>

\* ---------------------------------------------------------------------------------
\* Versioned saves
\* ---------------------------------------------------------------------------------

\* the save of outcome r failed, returned the current version of the file and left
\* the data files and the version records as they are
Refused(r, file_key) ==
    /\ ~r.success
    /\ r.version = _get_version(versions, file_key)
    /\ r.disk = disk
    /\ r.versions = versions

Conflicting(expected_version, file_key) ==
    expected_version /= 0 /\ expected_version /= _get_version(versions, file_key)

FileKeys == {BLOCKCHAIN_FILE, PENDING_TX_FILE}

\* no version record is lower after the save of outcome r
NoVersionLower(r) ==
    \A file_key \in FileKeys : _get_version(r.versions, file_key) >= _get_version(versions, file_key)

\* the save of outcome r succeeded and moved the file's version up by one
Incremented(r, file_key) ==
    /\ r.success
    /\ r.version = _get_version(versions, file_key) + 1
    /\ _get_version(r.versions, file_key) = r.version

\* the save of outcome r succeeded and wrote nothing
NothingWritten(r, file_key) ==
    /\ r.success
    /\ r.version = _get_version(versions, file_key)
    /\ r.disk = disk
    /\ r.versions = versions

\* blockchain.json holds a chain longer than new_chain, or one of the same length and
\* the same tip hash
AlreadyPersisted(new_chain) ==
    /\ disk.blockchain.exists
    /\ \/ Len(disk.blockchain.data) > Len(new_chain)
       \/ /\ Len(disk.blockchain.data) = Len(new_chain)
          /\ new_chain /= <<>>
          /\ disk.blockchain.data[Len(new_chain)].hash = new_chain[Len(new_chain)].hash

ChainSavedAsAmended(r, new_chain, force, expected_version) ==
    /\ NoVersionLower(r)
    /\ expected_version = 0
       => IF ~force /\ AlreadyPersisted(new_chain)
          THEN NothingWritten(r, BLOCKCHAIN_FILE)
          ELSE Incremented(r, BLOCKCHAIN_FILE) /\ r.disk.blockchain = FileOf(new_chain)

MempoolSaved(r, transactions, expected_version) ==
    /\ NoVersionLower(r)
    /\ expected_version = 0
       => Incremented(r, PENDING_TX_FILE) /\ r.disk.pending_tx = FileOf(transactions)

\* C20 (amended): no save lowers the version of a file.  A save_pending_transactions
\* called with expected_version = 0 succeeds and increments the file's version by one.
\* A save_blockchain called with expected_version = 0 succeeds; it writes the chain and
\* increments the version by one, unless it is called without force while
\* blockchain.json holds a longer chain or one of the same length and tip hash: then
\* it writes nothing and returns the version as it is.
C20_VersionsAdvance ==
    \A expected_version \in ExpectedVersions :
        /\ \A new_chain \in ChainsToSave, force \in BOOLEAN :
               ChainSavedAsAmended(save_blockchain(disk, versions, new_chain, force,
                                                   expected_version),
                                   new_chain, force, expected_version)
        /\ \A transactions \in MempoolsToSave :
               MempoolSaved(save_pending_transactions(disk, versions, transactions,
                                                      expected_version),
                            transactions, expected_version)

\* a save_blockchain with expected_version = 0 and no force that was answered with
\* success while the file holds a longer chain, at a version above 0
C20_Witness ==
    /\ last.op = "save_blockchain"
    /\ last.args[2] = FALSE
    /\ last.args[3] = 0
    /\ last.ret[1]
    /\ last.ret[2] = _get_version(versions, BLOCKCHAIN_FILE)
    /\ last.ret[2] > 0
    /\ disk.blockchain.exists
    /\ Len(disk.blockchain.data) > last.args[1]

ChainSavedAsStated(r, expected_version) ==
    /\ NoVersionLower(r)
    /\ expected_version = 0 => Incremented(r, BLOCKCHAIN_FILE)

\* C20 as stated: every file's version only grows, and every save called with
\* expected_version = 0 succeeds and increments the file's version by one.
C20_EverySaveIncrements ==
    /\ \A new_chain \in ChainsToSave, force \in BOOLEAN :
           ChainSavedAsStated(save_blockchain(disk, versions, new_chain, force, 0), 0)
    /\ \A transactions \in MempoolsToSave :
           MempoolSaved(save_pending_transactions(disk, versions, transactions, 0),
                        transactions, 0)

\* ---------------------------------------------------------------------------------
\* save_all and the persisted mempool
\* ---------------------------------------------------------------------------------

\* the file of outcome r holds every tx_id of the two mempools
HoldsBoth(r, first_tx, second_tx) ==
    (TxIdsOf(first_tx) \cup TxIdsOf(second_tx)) \subseteq TxIdsOf(r.disk.pending_tx.data)

\* the second process saves after the first one, whose outcome is r1
SecondAfter(r1, new_chain, first_tx, second_tx) ==
    HoldsBoth(save_all(r1.disk, r1.versions, new_chain, second_tx), first_tx, second_tx)

\* C22: when two processes call save_all with different mempools, one after the other,
\* the persisted mempool holds every tx_id that either of them passed in.
C22_SaveAllMerges ==
    \A first_tx \in MempoolsToSave, second_tx \in MempoolsToSave :
        SecondAfter(save_all(disk, versions, chain, first_tx), chain, first_tx, second_tx)

\* ---- C23
InCritical(p) == procs[p].pc \in {"check", "write", "release"}

\* process q comes out of the acquisition loop over the marker of a process that is
\* inside the critical section
EntersOver(q) ==
    /\ procs[q].pc = "acquire"
    /\ procs'[q].pc = "check"
    /\ lockfile.exists
    /\ InCritical(lockfile.pid)

\* C23: a process enters the critical section over the marker of a process that is
\* inside it only when that marker is older than the 30 s timeout: while a process has
\* held the marker for less than 30 s, no other process is inside.
C23_ForcedOnlyWhenStale ==
    [][\A q \in Procs : EntersOver(q) => lockfile.age > StaleAge]_vars

\* ---- C21
PersistedLength(D) == Len(D.blockchain.data)

\* C21: with every save_blockchain call made without force, by whatever process, the
\* length of the chain in blockchain.json never decreases.
C21_LengthNeverDecreases ==
    [][PersistedLength(disk') >= PersistedLength(disk)]_vars

\* ---- C24
OneToOne(S) == \A p \in DOMAIN S, q \in DOMAIN S : S[p] = S[q] => p = q

StartsAsClaimed(S, port, address, r) ==
    IF port \in DOMAIN S \/ address \in {S[p] : p \in DOMAIN S}
    THEN ~r.success /\ r.sessions = S
    ELSE /\ r.success
         /\ DOMAIN r.sessions = (DOMAIN S) \cup {port}
         /\ r.sessions[port] = address
         /\ \A p \in DOMAIN S : r.sessions[p] = S[p]

EndsAsClaimed(S, port, r) ==
    /\ r.success = (port \in DOMAIN S)
    /\ DOMAIN r.sessions = (DOMAIN S) \ {port}
    /\ \A p \in DOMAIN r.sessions : r.sessions[p] = S[p]

\* C24: no address is registered on two ports (and a port has one address); from any
\* reachable table start_session refuses an occupied port or an active address and
\* leaves the table as it is, else adds exactly port -> address; end_session removes
\* exactly the entry of its port and answers false when there is none.
C24_SessionTable ==
    /\ OneToOne(sessions)
    /\ DOMAIN sessions \subseteq Ports
    /\ \A port \in Ports, address \in WalletAddresses :
          StartsAsClaimed(sessions, port, address, start_session(sessions, port, address))
    /\ \A port \in Ports : EndsAsClaimed(sessions, port, end_session(sessions, port))

\* a start refused because the wallet is active on another port, beside a second session
C24_Witness ==
    /\ last.op = "start_session"
    /\ ~last.ret
    /\ last.args[1] \notin DOMAIN sessions
    /\ Cardinality(DOMAIN sessions) = 2

\* ---- C25
UrlShaped(url) == url /= <<>> /\ Head(url) \in {"http://", "https://"}

\* the URLs of this node: scheme or not, then exactly one of its host:port names
SelfUrls ==
    {url \in AllUrls : \E x \in Identifiers : url = x \/ (url /= <<>> /\ Tail(url) = x)}

AddsAsClaimed(P, url, r) ==
    /\ (~UrlShaped(url) \/ url \in SelfUrls) => (~r.ret /\ r.peers = P)
    /\ url \in P => (r.ret /\ r.peers = P)

DiscoversAsClaimed(P, answers, r) ==
    /\ P \subseteq r.peers
    /\ \A url \in r.peers \ P : UrlShaped(url) /\ url \notin SelfUrls
    /\ r.ret = Cardinality(r.peers \ P)

\* C25: the peer set holds only http:// or https:// URLs and no URL of this node;
\* add_peer answers false and changes nothing for a malformed or self URL and answers
\* true and changes nothing for a known peer; discover_peers_from_network adds only
\* URL-shaped, non-self, unknown entries and returns how many it added.
C25_PeerSet ==
    /\ \A url \in peers : UrlShaped(url) /\ url \notin SelfUrls
    /\ \A url \in AllUrls : AddsAsClaimed(peers, url, add_peer(peers, url))
    /\ \A answers \in [peers -> PeerAnswers] :
          DiscoversAsClaimed(peers, answers, discover_peers_from_network(peers, answers))

\* a discovery that found two new peers, none of them this node
C25_Witness ==
    /\ last.op = "discover_peers_from_network"
    /\ last.ret = 2
    /\ Cardinality(peers) = 3

\* ---- C26
NextInLine(L, block, added, out) ==
    /\ added.ret => /\ out.ledger.chain = Append(L.chain, block)
                    /\ Purged(out.ledger.pending, ChainTxs(out.ledger.chain))
                    /\ \A i \in 1..Len(L.pending) :
                          L.pending[i].tx_id \notin TxIdsOf(ChainTxs(out.ledger.chain))
                          => \E j \in 1..Len(out.ledger.pending) :
                                out.ledger.pending[j] = L.pending[i]
    /\ ~added.ret => out.ledger.chain = L.chain /\ out.ledger.pending = L.pending

Ahead(L, r, out) ==
    /\ out.message = "Chain synced"
    /\ out.ledger.chain = r.ledger.chain
    /\ r.ret => Purged(out.ledger.pending, ChainTxs(out.ledger.chain))

Behind(L, out) ==
    /\ out.ledger.chain = L.chain
    /\ out.ledger.pending = L.pending

BlockHandledAsClaimed(L, block, added, r, out) ==
    /\ out.success
    /\ out.status \in {200, 201}
    /\ block.index = get_latest_block(L.chain).index + 1 => NextInLine(L, block, added, out)
    /\ block.index > get_latest_block(L.chain).index + 1 => Ahead(L, r, out)
    /\ block.index <= get_latest_block(L.chain).index => Behind(L, out)

BlockHandled(L, block, added, r) ==
    BlockHandledAsClaimed(L, block, added, r, receive_block(L, block, added, r))

\* C26: receive_block with block b on tip t: for b.index = t.index + 1 add_block is
\* tried and on success the mempool is cleaned; for b.index > t.index + 1
\* resolve_conflicts runs; for b.index <= t.index chain and mempool stay as they are;
\* the answer is never an error.
C26_ReceiveBlockCases ==
    \A block \in IncomingBlocks, responses \in ResponseLists(Cardinality(peers)) :
        BlockHandled(Ledger, block, add_block(Ledger, block),
                     resolve_conflicts(Ledger, responses))

\* a block two ahead of the tip was answered by a sync that brought a longer chain
C26_Witness ==
    /\ last.op = "receive_block"
    /\ last.args[1] > last.args[2] + 1
    /\ last.ret = <<200, "Chain synced">>
    /\ get_latest_block(chain).index > last.args[2]

\* ---- C27
\* the dict with other values in the fields that are not hashed
OtherFields(data) ==
    {[data EXCEPT !.signature = sig, !.tx_type = ty, !.public_key = pk] :
        sig \in {NoSignature, WalletSign("pkB", <<>>)}, ty \in TxTypes, pk \in {"", "pkB"}}

RoundTrips(data, clock) ==
    /\ hash_hex(from_dict(data, clock)) = data.tx_id
    /\ \A other \in OtherFields(data) : to_dict(from_dict(other, clock)).tx_id = data.tx_id

\* C27: a dict written by to_dict and read back by from_dict, now or later, hashes to
\* the tx_id of the dict, whatever its signature, type and public key are.
C27_RoundTrip ==
    /\ last.op = "to_dict" => \A clock \in now..(MaxApiTime + 1) : RoundTrips(last.ret, clock)
    /\ last.op = "from_dict" => hash_hex(last.ret) = last.args.tx_id

\* a dict with the amount 5.0 was read back after its timestamp and kept it
C27_Witness ==
    /\ last.op = "from_dict"
    /\ last.args.timestamp < now
    /\ last.args.amount = PyNumber("float", 5)
    /\ last.ret.timestamp = last.args.timestamp

\* ---- C28
\* C28: with a chain file that cannot be read or is malformed the node starts with the
\* genesis block alone, and with such a mempool file it starts with an empty mempool.
C28_DamagedFilesStartFresh ==
    \A f \in {CorruptFile, MalformedFile} :
        /\ NodeInit([disk EXCEPT !.blockchain = f], versions).started
        /\ NodeInit([disk EXCEPT !.blockchain = f], versions).chain = <<GENESIS_BLOCK>>
        /\ NodeInit([blockchain |-> NoFile, pending_tx |-> f], versions).started
        /\ NodeInit([blockchain |-> NoFile, pending_tx |-> f], versions).pending = <<>>

\* ---- C29
HashOfContent(tx) == TxHash(tx.sender, tx.receiver, tx.amount, tx.timestamp)

\* C29: every transaction of the mempool carries as tx_id the SHA-256 of its own
\* sender, receiver, amount and timestamp.
C29_TxIdIsContentHash ==
    \A i \in 1..Len(pending_transactions) :
        pending_transactions[i].tx_id = HashOfContent(pending_transactions[i])

\* ---- C30
Holds(pending, tx) == \E j \in 1..Len(pending) : pending[j] = tx

\* C30: a transaction leaves the mempool only when its tx_id is in a block of the
\* chain, also with admissions running beside mine_block and the cleanup.
C30_OnlyMinedLeave ==
    [][\A i \in 1..Len(pending_transactions) :
          ~Holds(pending_transactions', pending_transactions[i])
          => pending_transactions[i].tx_id \in TxIdsOf(ChainTxs(chain'))]_vars

\* C31: in every reachable state the block at position i of the chain (counted from 0)
\* has index i, blocks accepted by add_block and chains adopted by resolve_conflicts
\* included.
C31_IndexIsPosition ==
    \A i \in 1..Len(chain) : chain[i].index = i - 1

\* C32: while a thread awaits a peer's answer to a request it holds neither
\* Blockchain._lock nor Node._peers_lock, and the peer asked is one of the copy it
\* took under Node._peers_lock (or the new peer _propagate_peer was started for):
\* resolve_conflicts, the two broadcasts, _propagate_peer,
\* discover_peers_from_network and _sync_pending_transactions release the lock
\* before their first request.
C32_NoRequestUnderLock ==
    \A c \in Operations :
        callers[c].awaiting /= NoPeer =>
            /\ lock /= c
            /\ _peers_lock /= c
            /\ callers[c].awaiting \in callers[c].peers_copy \cup {callers[c].new_peer_url}

\* a thread awaits a peer's answer while another thread is inside `with
\* self._peers_lock`, and resolve_conflicts awaits one while it holds Node._sync_lock
C32_Witness ==
    /\ \E c, d \in Operations :
          /\ c /= d
          /\ callers[c].awaiting /= NoPeer
          /\ _peers_lock = d
    /\ callers["resolve_conflicts"].awaiting /= NoPeer
    /\ _sync_lock = "resolve_conflicts"

\* resolve_conflicts returned what it returns without the peers that failed, and left
\* the ledger it leaves without them
SameAsWithoutFaulty ==
    last.op = "resolve_conflicts_answered" =>
        /\ last.ret = last.without.ret
        /\ Ledger = last.without.ledger

\* C33: a peer that cannot be reached, times out, answers with another status than 200
\* or sends a body that cannot be read casts no vote in resolve_conflicts: the call
\* returns what it returns without that peer and leaves the ledger it leaves without
\* it, and when another peer offers, in a readable body and under its true length, a
\* chain that passes the validation and is longer than the node's, the call returns
\* True and the node's chain is then at least that long.
C33_FaultyPeersCastNoVote ==
    (last.op = "resolve_conflicts_answered" /\ last.faulty /= {}) =>
        /\ SameAsWithoutFaulty
        /\ last.offered > last.own_len =>
              /\ last.ret
              /\ Len(chain) >= last.offered

\* C34: once a stop has cleared the active flag, no loop thread that was running then
\* begins a further iteration (it ends at its next `while` test).
C34_StopEndsLoop ==
    [][\A s \in Services : \A i \in DOMAIN services[s].threads :
          (services[s].threads[i].stopped /\ services[s].threads[i].pc = "test")
              => services'[s].threads[i].pc /= "iteration"]_vars

\* C38: at most one loop thread of each service is running at any time.
C38_OneLoopThread ==
    \A s \in Services : Cardinality(Live(s)) <= 1

\* C35: when a process has died inside the lock and its marker file is still there,
\* every other process that is trying to take the lock eventually enters its
\* critical section.
C35_CrashedHolderDoesNotWedge ==
    \A q \in Procs :
        (/\ \E p \in Procs : procs[p].pc = "dead"
         /\ procs[q].pc \in {"acquire", "sleep"})
            ~> InCritical(q)

\* a process is inside its critical section, the marker its own, while the process
\* that created the marker before it is dead
C35_Witness ==
    \E p, q \in Procs :
        /\ procs[p].pc = "dead"
        /\ InCritical(q)
        /\ procs[q].lock_acquired
        /\ lockfile.exists
        /\ lockfile.pid = q

\* ---------------------------------------------------------------------------------
\* Spending
\* ---------------------------------------------------------------------------------

\* C36: no address other than the coinbase address ever has a negative balance: over
\* the transactions mined into the chain the amounts an address sent never exceed the
\* amounts it received, also when several pending transfers of one sender were each
\* validated against the same confirmed balance before any of them was mined.
C36_NoNegativeBalance ==
    \A a \in BalanceAddresses \ {COINBASE_ADDRESS} :
        /\ get_balance(Ledger, a) >= 0
        /\ SumSent(ChainTxs(chain), a) <= SumReceived(ChainTxs(chain), a)

\* ---- C37
\* C37: every block of the chain after the genesis block, whether mined by this node,
\* accepted from a peer or adopted with a peer's chain, contains exactly one coinbase
\* transaction, placed first, whose amount is MINING_REWARD.
C37_OneCoinbaseFirst ==
    \A i \in 2..Len(chain) :
        /\ chain[i].data /= <<>>
        /\ is_coinbase(chain[i].data[1])
        /\ chain[i].data[1].amount = MINING_REWARD
        /\ \A j \in 2..Len(chain[i].data) : ~is_coinbase(chain[i].data[j])

\* ---- C39
\* C39: the session of a node that has started its session and not yet ended it is in
\* the table under its port with its wallet, whatever sweeps other processes run: the
\* sweep of a Storage constructor removes only entries of nodes that exited or were
\* killed, also while the owner is between start_session and app.run.
C39_LiveSessionKept ==
    \A port \in Ports :
        nodes[port].pc \in {"booting", "listening"}
            => /\ port \in DOMAIN sessions
               /\ sessions[port] = nodes[port].address

\* ---- C40
\* C40: a node started while a persisted chain and mempool exist completes its
\* initialization with its chain equal, block for block, to the persisted chain and
\* its mempool equal to the persisted mempool.
C40_StartRoundTrip ==
    (/\ disk.blockchain.exists
     /\ disk.blockchain \notin {CorruptFile, MalformedFile}
     /\ disk.pending_tx \notin {CorruptFile, MalformedFile})
        => /\ NodeInit(disk, versions).started
           /\ NodeInit(disk, versions).chain = disk.blockchain.data
           /\ NodeInit(disk, versions).pending = disk.pending_tx.data

====
